---------------------------- MODULE Spec2Model ----------------------------
(***************************************************************************)
(* litra-autotoggle (src/src/main.rs): the debounce coordinator of the     *)
(* Linux build of handle_autotoggle_command, the device matcher            *)
(* get_all_supported_devices, the device appliers                          *)
(* turn_on/turn_off_all_supported_devices_and_log, the configuration       *)
(* (command line, configuration file, merge_config_with_cli) and the       *)
(* version comparison is_newer_version.                                    *)
(*                                                                         *)
(* The ingest loop runs on the main task of the multi-threaded tokio       *)
(* runtime (#[tokio::main]); every forwarded edge spawns one delayed task  *)
(* that runs on a worker thread, so the steps of the loop and of the       *)
(* tasks interleave.  JoinHandle::abort ends an idle task (one parked at   *)
(* an .await) at once, and only marks a running one, which is then ended   *)
(* the next time one of its .await points has to wait.                     *)
(***************************************************************************)
EXTENDS Integers, Sequences, FiniteSets, TLC

(***************************************************************************)
(* Bounds of the model.                                                    *)
(***************************************************************************)
MaxEdges == 3
MaxOpen == 2
MaxBatch == 2
MaxLines == 2

\* Option<T>: None is the empty sequence, Some(x) the sequence of x alone
None == <<>>

(***************************************************************************)
(* The device subsystem (crate litra), at its interface.                   *)
(***************************************************************************)
Devices == {1, 2, 3}

\* the name check_device_filters gives to the type of a device
DeviceTypeStr(d) ==
  CASE d = 1 -> "glow"
    [] d = 2 -> "beam_lx"
    [] OTHER -> "beam"

DevicePathOf(d) ==
  CASE d = 1 -> "/dev/hidraw0"
    [] d = 2 -> "/dev/hidraw1"
    [] OTHER -> "/dev/hidraw2"

\* the serial number a device reports when it is read successfully
DeviceSerialOf(d) ==
  CASE d = 1 -> <<"S1">>
    [] d = 2 -> None
    [] OTHER -> <<"S3">>

\* what can go wrong with one device during one match-and-apply: the open,
\* the read of the serial, set_on, set_back_on, or two of them
Faults == {"ok", "open", "serial", "set", "back", "set_back", "serial_set",
           "serial_back"}

\* the level the logger is set to: "info" by default, "debug" with verbose,
\* or what RUST_LOG gives
LogLevels == {"off", "error", "warn", "info", "debug", "trace"}

Envs == [refresh_ok : BOOLEAN, fault : [Devices -> Faults], log_level : LogLevels]

\* handle.serial_number(), handle.set_on(..), handle.set_back_on(..) fail
serial_fails(d, env) == env.fault[d] \in {"serial", "serial_set", "serial_back"}
set_on_fails(d, env) == env.fault[d] \in {"set", "set_back", "serial_set"}
set_back_on_fails(d, env) == env.fault[d] \in {"back", "set_back", "serial_back"}

\* the arguments of info!(..) and of warn!(..) are evaluated only when the
\* level is enabled
info_enabled(env) == env.log_level \in {"info", "debug", "trace"}
warn_enabled(env) == env.log_level \in {"warn", "info", "debug", "trace"}

PowerStates == {"unknown", "on", "off"}

PowerOf(on) == IF on THEN "on" ELSE "off"

\* the elements of a set of devices in enumeration order
RECURSIVE InOrder(_)
InOrder(S) ==
  IF S = {} THEN <<>>
  ELSE LET m == CHOOSE x \in S : \A y \in S : x <= y
       IN <<m>> \o InOrder(S \ {m})

Range(s) == {s[i] : i \in 1..Len(s)}

IsSome(x) == x # None

\* Option<bool>, the type of desired_state
NoIntent == <<>>
Some(b) == <<b>>
Unwrap(s) == s[1]

(***************************************************************************)
(* Configuration: the command line, the configuration file and their merge *)
(* (Linux build).  A CliError is kept as its name and its argument, an     *)
(* Option<String>.                                                         *)
(***************************************************************************)
unwrap_or(opt, default) == IF opt = <<>> THEN default ELSE opt[1]

Err(kind, arg) == [err |-> kind, arg |-> arg]

\* the default of --delay
DefaultDelay == 1500

\* mutant of validate_device_type: the names are compared ignoring case
validate_device_type_ignores_case(device_type) ==
  IF device_type \in {"glow", "beam", "beam_lx", "Glow", "BEAM", "Beam_LX"}
  THEN Err("Ok", None)
  ELSE Err("InvalidDeviceType", <<device_type>>)

validate_device_type(device_type) ==
  IF device_type \in {"glow", "beam", "beam_lx"}
  THEN Err("Ok", None)
  ELSE Err("InvalidDeviceType", <<device_type>>)

\* Cli::parse(): the options as given become the fields of Cli; a delay that
\* is not given becomes the default
parse(argv) ==
  [config_file |-> argv.config_file,
   serial_number |-> argv.serial_number,
   device_path |-> argv.device_path,
   device_type |-> argv.device_type,
   require_device |-> argv.require_device,
   video_device |-> argv.video_device,
   delay |-> unwrap_or(argv.delay, DefaultDelay),
   verbose |-> argv.verbose,
   back |-> argv.back,
   check_updates |-> argv.check_updates]

(***************************************************************************)
(* The update check: is_newer_version.  A string is the sequence of its    *)
(* characters; a parsed u32 is kept as its decimal digits without leading  *)
(* zeros, so that values up to u32::MAX are compared exactly.              *)
(***************************************************************************)
Digits == <<"0", "1", "2", "3", "4", "5", "6", "7", "8", "9">>

IsDigit(c) == \E i \in 1..10 : Digits[i] = c

DigitVal(c) == (CHOOSE i \in 1..10 : Digits[i] = c) - 1

\* u32::MAX, 4294967295
U32MaxDigits == <<"4", "2", "9", "4", "9", "6", "7", "2", "9", "5">>

RECURSIVE StripZeros(_)
StripZeros(ds) ==
  IF Len(ds) > 1 /\ Head(ds) = "0" THEN StripZeros(Tail(ds)) ELSE ds

\* a < b for numbers given by their digits without leading zeros
RECURSIVE LexLess(_, _)
LexLess(a, b) ==
  IF a = <<>> THEN FALSE
  ELSE IF Head(a) # Head(b) THEN DigitVal(Head(a)) < DigitVal(Head(b))
  ELSE LexLess(Tail(a), Tail(b))

NumLess(a, b) ==
  \/ Len(a) < Len(b)
  \/ Len(a) = Len(b) /\ LexLess(a, b)

\* s.parse::<u32>().ok(): an optional "+", then one or more digits, and a
\* value of at most u32::MAX; <<>> when the parse fails
parse_u32(piece) ==
  LET body == IF piece # <<>> /\ Head(piece) = "+" THEN Tail(piece) ELSE piece
  IN IF body = <<>> \/ \E i \in 1..Len(body) : ~IsDigit(body[i]) THEN <<>>
     ELSE IF NumLess(U32MaxDigits, StripZeros(body)) THEN <<>>
     ELSE <<StripZeros(body)>>

\* v.trim_start_matches('v'): every leading v is removed
RECURSIVE trim_start_matches_v(_)
trim_start_matches_v(s) ==
  IF s # <<>> /\ Head(s) = "v" THEN trim_start_matches_v(Tail(s)) ELSE s

\* split('.'): the pieces between the dots, empty pieces included
RECURSIVE split_dot(_, _)
split_dot(s, piece) ==
  IF s = <<>> THEN <<piece>>
  ELSE IF Head(s) = "." THEN <<piece>> \o split_dot(Tail(s), <<>>)
  ELSE split_dot(Tail(s), Append(piece, Head(s)))

\* filter_map(|s| s.parse().ok()): the pieces that parse, in order
RECURSIVE filter_map_parse(_)
filter_map_parse(pieces) ==
  IF pieces = <<>> THEN <<>>
  ELSE parse_u32(Head(pieces)) \o filter_map_parse(Tail(pieces))

parse_version(v) ==
  filter_map_parse(split_dot(trim_start_matches_v(v), <<>>))

\* the loop over current_parts.iter().zip(remote_parts.iter())
RECURSIVE ZipNewer(_, _)
ZipNewer(current_parts, remote_parts) ==
  IF current_parts = <<>> \/ remote_parts = <<>> THEN FALSE
  ELSE IF NumLess(Head(current_parts), Head(remote_parts)) THEN TRUE
  ELSE IF NumLess(Head(remote_parts), Head(current_parts)) THEN FALSE
  ELSE ZipNewer(Tail(current_parts), Tail(remote_parts))

is_newer_version(current, remote) ==
  ZipNewer(parse_version(current), parse_version(remote))

(***************************************************************************)
(* Device Matcher                                                          *)
(***************************************************************************)
\* mutant of check_device_filters: a given device type is checked as well
\* as a given path
check_device_filters_checks_both(device_path, device_type, d) ==
  /\ IsSome(device_path) => DevicePathOf(d) = Unwrap(device_path)
  /\ IsSome(device_type) => DeviceTypeStr(d) = Unwrap(device_type)

check_device_filters(device_path, device_type, d) ==
  IF IsSome(device_path) THEN DevicePathOf(d) = Unwrap(device_path)
  ELSE IF IsSome(device_type) THEN DeviceTypeStr(d) = Unwrap(device_type)
  ELSE TRUE

\* mutant of validate_single_filter: only all three filters together are refused
validate_single_filter_two_allowed(serial_number, device_path, device_type) ==
  IF IsSome(serial_number) /\ IsSome(device_path) /\ IsSome(device_type)
  THEN "MultipleFiltersSpecified" ELSE "Ok"

validate_single_filter(serial_number, device_path, device_type) ==
  LET filter_count ==
        Cardinality({i \in 1..3 :
            <<IsSome(serial_number), IsSome(device_path), IsSome(device_type)>>[i]})
  IN IF filter_count > 1 THEN "MultipleFiltersSpecified" ELSE "Ok"

\* a configuration file is [readable, parses, config]: whether it can be
\* read, whether its text is YAML of a Config, and the Config it holds
load_config_file(file) ==
  IF ~file.readable THEN Err("ConfigFileError", <<"Failed to read config file">>)
  ELSE IF ~file.parses THEN Err("ConfigFileError", <<"Failed to parse YAML">>)
  ELSE IF IsSome(file.config.device_type)
          /\ validate_device_type(Unwrap(file.config.device_type)).err # "Ok"
  THEN validate_device_type(Unwrap(file.config.device_type))
  ELSE IF validate_single_filter(file.config.serial_number,
             file.config.device_path, file.config.device_type) # "Ok"
  THEN Err("MultipleFiltersSpecified", None)
  ELSE [err |-> "Ok", arg |-> None, config |-> file.config]

\* the merge proper (main.rs 277-308)
MergedWith(cli, config) ==
  [config_file |-> cli.config_file,
   serial_number |->
     IF cli.serial_number = None THEN config.serial_number ELSE cli.serial_number,
   device_path |->
     IF cli.device_path = None THEN config.device_path ELSE cli.device_path,
   device_type |->
     IF cli.device_type = None THEN config.device_type ELSE cli.device_type,
   require_device |->
     IF ~cli.require_device THEN unwrap_or(config.require_device, FALSE) ELSE TRUE,
   video_device |->
     IF cli.video_device = None THEN config.video_device ELSE cli.video_device,
   delay |->
     IF cli.delay = 1500 /\ config.delay # <<>> THEN config.delay[1] ELSE cli.delay,
   verbose |-> IF ~cli.verbose THEN unwrap_or(config.verbose, FALSE) ELSE TRUE,
   back |-> IF ~cli.back THEN unwrap_or(config.back, FALSE) ELSE TRUE,
   check_updates |->
     IF ~cli.check_updates THEN unwrap_or(config.check_updates, FALSE) ELSE TRUE]

\* the validation of the merged device type (main.rs 311-316)
ValidatedCli(cli) ==
  IF IsSome(cli.device_type)
     /\ validate_device_type(Unwrap(cli.device_type)).err # "Ok"
  THEN validate_device_type(Unwrap(cli.device_type))
  ELSE [err |-> "Ok", arg |-> None, cli |-> cli]

merge_config_with_cli(cli) ==
  IF cli.config_file # <<>>
  THEN LET loaded == load_config_file(cli.config_file[1])
       IN IF loaded.err # "Ok" THEN loaded
          ELSE ValidatedCli(MergedWith(cli, loaded.config))
  ELSE ValidatedCli(cli)

\* handle.serial_number(), a Result<Option<String>>: an error, or the
\* optional serial of the device
SerialErr == [ok |-> FALSE, value |-> None]
SerialOk(serial) == [ok |-> TRUE, value |-> serial]

serial_number_read(d, env) ==
  IF serial_fails(d, env) THEN SerialErr ELSE SerialOk(DeviceSerialOf(d))

\* mutant of MatchResult: no handle is an error whatever require_device is
MatchResult_always_required(handles, serial_number, require_device) ==
  IF handles = <<>>
  THEN IF IsSome(serial_number)
       THEN [err |-> "DeviceNotFound", arg |-> serial_number, handles |-> <<>>]
       ELSE [err |-> "NoDevicesFound", arg |-> None, handles |-> <<>>]
  ELSE [err |-> "Ok", arg |-> None, handles |-> handles]

\* mutant of MatchResult: the error does not depend on the serial filter
MatchResult_no_serial_case(handles, serial_number, require_device) ==
  IF handles = <<>> /\ require_device
  THEN [err |-> "NoDevicesFound", arg |-> None, handles |-> <<>>]
  ELSE [err |-> "Ok", arg |-> None, handles |-> handles]

\* the result returned when the handles are known (main.rs 365-373)
MatchResult(handles, serial_number, require_device) ==
  IF handles = <<>> /\ require_device
  THEN IF IsSome(serial_number)
       THEN [err |-> "DeviceNotFound", arg |-> serial_number, handles |-> <<>>]
       ELSE [err |-> "NoDevicesFound", arg |-> None, handles |-> <<>>]
  ELSE [err |-> "Ok", arg |-> None, handles |-> handles]

\* mutant of refresh_connected_devices: the list of the context is left as
\* it was
refresh_connected_devices_skipped(context, conn) == context

\* The context (Litra) holds the list of devices of its last refresh.
\* context.refresh_connected_devices(): the list becomes the devices that
\* are connected now
refresh_connected_devices(context, conn) == conn

\* context.get_connected_devices(): the devices of the list of the context
get_connected_devices(context) == context

\* the result of the matcher together with the context it leaves
WithContext(r, context) ==
  [err |-> r.err, arg |-> r.arg, handles |-> r.handles, context |-> context]

\* mutant of opens: a device that fails to open is still given a handle
opens_always(d, env) == TRUE

\* device.open(context) succeeds
opens(d, env) == env.fault[d] # "open"

\* mutant of serial_matches: a serial that cannot be read matches
serial_matches_unreadable(d, serial, env) ==
  serial_number_read(d, env) \in {SerialOk(<<serial>>), SerialErr}

\* if let Ok(Some(actual_serial)) = handle.serial_number() and
\* actual_serial == serial
serial_matches(d, serial, env) ==
  serial_number_read(d, env) = SerialOk(<<serial>>)

get_all_supported_devices(context, conn, cfg, env) ==
  IF validate_single_filter(cfg.serial_number, cfg.device_path, cfg.device_type) # "Ok"
  THEN [err |-> "MultipleFiltersSpecified", arg |-> None, handles |-> <<>>,
        context |-> context]
  ELSE IF ~env.refresh_ok
  THEN [err |-> "DeviceError", arg |-> None, handles |-> <<>>, context |-> context]
  ELSE
    LET refreshed == refresh_connected_devices(context, conn)
        potential_devices ==
          {d \in get_connected_devices(refreshed) :
             check_device_filters(cfg.device_path, cfg.device_type, d)}
        opened == {d \in potential_devices : opens(d, env)}
        handles ==
          IF IsSome(cfg.serial_number)
          THEN {d \in opened : serial_matches(d, Unwrap(cfg.serial_number), env)}
          ELSE opened
    IN WithContext(
         MatchResult(InOrder(handles), cfg.serial_number, cfg.require_device),
         refreshed)

\* the calls get_all_supported_devices makes on the device subsystem, in
\* order: the refresh, the enumeration, and per device the open and, with a
\* serial filter, the read of the serial of a device that opened
RECURSIVE OpenCalls(_, _, _)
OpenCalls(ds, with_serial, env) ==
  IF ds = <<>> THEN <<>>
  ELSE <<<<"open", Head(ds)>>>>
       \o (IF with_serial /\ opens(Head(ds), env)
           THEN <<<<"serial_number", Head(ds)>>>> ELSE <<>>)
       \o OpenCalls(Tail(ds), with_serial, env)

MatcherCalls(context, conn, cfg, env) ==
  IF validate_single_filter(cfg.serial_number, cfg.device_path, cfg.device_type) # "Ok"
  THEN <<>>
  ELSE IF ~env.refresh_ok
  THEN <<<<"refresh", 0>>>>
  ELSE <<<<"refresh", 0>>, <<"get_connected_devices", 0>>>>
       \o OpenCalls(
            InOrder({d \in get_connected_devices(
                              refresh_connected_devices(context, conn)) :
                       check_device_filters(cfg.device_path, cfg.device_type, d)}),
            IsSome(cfg.serial_number), env)

(***************************************************************************)
(* Device Applier                                                          *)
(***************************************************************************)
\* get_serial_number_with_fallback unwraps the result of reading the serial:
\* it panics when the read fails, gives "-" when the device reports none
get_serial_number_with_fallback(d, env) ==
  LET read == serial_number_read(d, env)
  IN IF ~read.ok THEN [panicked |-> TRUE, value |-> ""]
     ELSE [panicked |-> FALSE,
           value |-> IF read.value = None THEN "-" ELSE Unwrap(read.value)]

SerialPanics(d, env) == get_serial_number_with_fallback(d, env).panicked

\* the outcome of the commands sent to one handle: r is the running record
\* [light, panicked, attempts, back_attempts, set_calls, back_calls]
\* device_handle.set_back_on(on)
SetBackOn(d, on, env, r) ==
  [r EXCEPT !.back_attempts = @ \cup {d},
            !.back_calls = Append(@, <<d, on>>),
            !.light[d].back = IF set_back_on_fails(d, env) THEN @ ELSE PowerOf(on)]

\* mutant of toggle_back_light_if_applicable: the back light is left alone
\* when the power command of the device failed
toggle_back_light_if_applicable_after_success(d, on, back, env, r) ==
  IF back /\ DeviceTypeStr(d) = "beam_lx" /\ ~set_on_fails(d, env)
  THEN IF info_enabled(env) /\ SerialPanics(d, env)
       THEN [r EXCEPT !.panicked = TRUE]
       ELSE IF set_back_on_fails(d, env) /\ warn_enabled(env) /\ SerialPanics(d, env)
       THEN [SetBackOn(d, on, env, r) EXCEPT !.panicked = TRUE]
       ELSE SetBackOn(d, on, env, r)
  ELSE r

\* the serial is read for the info! line before set_back_on is sent, and
\* again for the warn! line when set_back_on fails
toggle_back_light_if_applicable(d, on, back, env, r) ==
  IF back /\ DeviceTypeStr(d) = "beam_lx"
  THEN IF info_enabled(env) /\ SerialPanics(d, env)
       THEN [r EXCEPT !.panicked = TRUE]
       ELSE IF set_back_on_fails(d, env) /\ warn_enabled(env) /\ SerialPanics(d, env)
       THEN [SetBackOn(d, on, env, r) EXCEPT !.panicked = TRUE]
       ELSE SetBackOn(d, on, env, r)
  ELSE r

\* mutant of SetOn: the command toggles a light that already has the value
SetOn_toggles(d, on, env, r) ==
  [r EXCEPT !.attempts = @ \cup {d},
            !.set_calls = Append(@, <<d, on>>),
            !.light[d].on = IF @ = PowerOf(on) THEN PowerOf(~on) ELSE PowerOf(on)]

\* device_handle.set_on(on)
SetOn(d, on, env, r) ==
  [r EXCEPT !.attempts = @ \cup {d},
            !.set_calls = Append(@, <<d, on>>),
            !.light[d].on = IF set_on_fails(d, env) THEN @ ELSE PowerOf(on)]

\* one pass of the loop body (main.rs 419-435 and 462-478): the info! line
\* with the serial, set_on, the warn! line with the serial when set_on
\* failed, then the back light
ApplyOne(d, on, back, env, r) ==
  IF info_enabled(env) /\ SerialPanics(d, env)
  THEN [r EXCEPT !.panicked = TRUE]
  ELSE IF set_on_fails(d, env) /\ warn_enabled(env) /\ SerialPanics(d, env)
  THEN [SetOn(d, on, env, r) EXCEPT !.panicked = TRUE]
  ELSE toggle_back_light_if_applicable(d, on, back, env, SetOn(d, on, env, r))

\* mutant of ApplyLoop: the first failing set_on ends the loop
RECURSIVE ApplyLoop_stops_at_failure(_, _, _, _, _)
ApplyLoop_stops_at_failure(hs, on, back, env, r) ==
  IF hs = <<>> \/ r.panicked THEN r
  ELSE IF set_on_fails(Head(hs), env)
  THEN SetOn(Head(hs), on, env, r)
  ELSE ApplyLoop_stops_at_failure(Tail(hs), on, back, env,
         ApplyOne(Head(hs), on, back, env, r))

\* the loop over the handles (main.rs 418-436 and 461-479): a panic ends it
RECURSIVE ApplyLoop(_, _, _, _, _)
ApplyLoop(hs, on, back, env, r) ==
  IF hs = <<>> \/ r.panicked THEN r
  ELSE ApplyLoop(Tail(hs), on, back, env, ApplyOne(Head(hs), on, back, env, r))

\* print_device_not_found_log: its only effect is a warn! line, which is
\* written when the warn level is enabled
print_device_not_found_log(serial_number, env) == warn_enabled(env)

ApplyAll(context, conn, cfg, env, light, on) ==
  LET m == get_all_supported_devices(context, conn, cfg, env)
      r0 == [light |-> light, panicked |-> FALSE,
             attempts |-> {}, back_attempts |-> {}, set_calls |-> <<>>,
             back_calls |-> <<>>]
      r == ApplyLoop(m.handles, on, cfg.back, env, r0)
  IN IF m.err # "Ok"
     THEN [err |-> m.err, handles |-> <<>>, not_found_log |-> FALSE,
           light |-> light, panicked |-> FALSE,
           attempts |-> {}, back_attempts |-> {}, set_calls |-> <<>>,
           back_calls |-> <<>>, context |-> m.context]
     ELSE [err |-> "Ok", handles |-> m.handles,
           not_found_log |->
             (m.handles = <<>> /\ print_device_not_found_log(cfg.serial_number, env)),
           light |-> r.light, panicked |-> r.panicked,
           attempts |-> r.attempts, back_attempts |-> r.back_attempts,
           set_calls |-> r.set_calls, back_calls |-> r.back_calls,
           context |-> m.context]

turn_on_all_supported_devices_and_log(context, conn, cfg, env, light) ==
  ApplyAll(context, conn, cfg, env, light, TRUE)

turn_off_all_supported_devices_and_log(context, conn, cfg, env, light) ==
  ApplyAll(context, conn, cfg, env, light, FALSE)

(***************************************************************************)
(* Debounce coordinator: state                                             *)
(***************************************************************************)
VARIABLES
  cfg,               \* the merged command line: filters, require_device, back
  connected,         \* the devices plugged in
  envs,              \* the device faults that can occur in this run
  light,             \* light[d] = [on, back]: the power state of each device
  mainpc,            \* where handle_autotoggle_command is
  result,            \* what handle_autotoggle_command returned ("running" before)
  runtime,           \* the tokio runtime: "running", "shutdown" once main drops it
  num_devices_open,  \* the open-video-device counter
  pending_action,    \* the stored JoinHandle: a task id, or 0 for None
  desired_state,     \* CameraIntent: NoIntent, Some(TRUE) or Some(FALSE)
  intent_lock,       \* holder of the desired_state mutex
  context_lock,      \* holder of the device context mutex
  tasks,             \* the spawned delayed actions
  edges,             \* history: the forwarded edges (TRUE: a camera is in use)
  intent_edge,       \* history: the edge that wrote desired_state (0: cleared)
  applyLog,          \* history: the applies executed, in order
  overtaken,         \* history: an edge found the previous action past its sleep
  camera_in_use,     \* Windows: the value of the last poll of the registry
  previous_camera_in_use,  \* Windows: the value of the last poll that differed
  log_line,          \* macOS: the line of the log stream being handled
  call               \* a call of one function on its own: arguments and result

world == <<cfg, connected, envs>>
locals == <<num_devices_open, pending_action>>
intent == <<desired_state, intent_edge>>
locks == <<intent_lock, context_lock>>
feeds == <<camera_in_use, previous_camera_in_use, log_line>>

vars == <<world, light, mainpc, result, runtime, locals, intent, locks, tasks,
          edges, applyLog, overtaken, feeds, call>>

Free == -1
Main == 0
TaskIds == 1..MaxEdges

\* the configurations the coordinator is run with
CoordCfgs ==
  { [serial_number |-> None, device_path |-> None, device_type |-> None,
     require_device |-> rq, back |-> FALSE, delay |-> DefaultDelay] :
    rq \in BOOLEAN }

\* the settle delays the coordinator is run with in SpecDelay
Delays == {0, DefaultDelay}

DelayCfgs ==
  { [c EXCEPT !.delay = d] : c \in {k \in CoordCfgs : ~k.require_device},
                             d \in Delays }

CleanEnv ==
  [refresh_ok |-> TRUE, fault |-> [d \in Devices |-> "ok"], log_level |-> "info"]

\* the device faults the coordinator is run with in SpecFaults: a failing
\* refresh, no device that opens, and a device whose serial cannot be read,
\* with the logger at its default level and with the info! lines left out
CoordEnvs ==
  { CleanEnv,
    [CleanEnv EXCEPT !.refresh_ok = FALSE],
    [CleanEnv EXCEPT !.fault = [d \in Devices |-> "open"]],
    [CleanEnv EXCEPT !.fault[3] = "serial"],
    [CleanEnv EXCEPT !.fault[3] = "serial", !.log_level = "warn"] }

IsClean(env) == env = CleanEnv

\* no function is called on its own while the coordinator runs
NoCall == [op |-> "none"]

\* macOS: no line of the log stream is being handled
NoLine == [header |-> FALSE, start |-> FALSE, stop |-> FALSE, read |-> FALSE]

UnbornTask ==
  [pc |-> "unborn", state |-> NoIntent, aborted |-> FALSE, edge |-> 0,
   delay |-> 0]

\* a task that has ended: its locals are dropped
Ended(task, pc) ==
  [task EXCEPT !.pc = pc, !.state = NoIntent, !.edge = 0, !.delay = 0]

Idle(pc) == pc \in {"sleeping", "wait_intent", "wait_ctx"}
Finished(pc) == pc \in {"done", "cancelled", "panicked", "dropped"}
Alive(pc) == pc # "unborn" /\ ~Finished(pc)
Exited == mainpc \in {"returned", "panicked"}

InitWith(cfgs, conns, es) ==
  /\ cfg \in cfgs
  /\ connected \in conns
  /\ envs = es
  /\ light = [d \in Devices |-> [on |-> "unknown", back |-> "unknown"]]
  /\ mainpc = "startup"
  /\ result = "running"
  /\ runtime = "running"
  /\ num_devices_open = 0
  /\ pending_action = 0
  /\ desired_state = NoIntent
  /\ intent_lock = Free
  /\ context_lock = Free
  /\ tasks = [t \in TaskIds |-> UnbornTask]
  /\ edges = <<>>
  /\ intent_edge = 0
  /\ applyLog = <<>>
  /\ overtaken = FALSE
  /\ camera_in_use = FALSE
  /\ previous_camera_in_use = FALSE
  /\ log_line = NoLine
  /\ call = NoCall

\* no device fault occurs; with and without connected devices
Init ==
  InitWith({c \in CoordCfgs : ~c.require_device}, {{}, Devices}, {CleanEnv})

\* device faults occur; with and without require_device
InitFaults ==
  InitWith(CoordCfgs, {Devices}, CoordEnvs)

\* no device fault occurs; with and without require_device and devices
InitStartup ==
  InitWith(CoordCfgs, {{}, Devices}, {CleanEnv})

\* no device fault occurs; the devices are connected; with the default
\* settle delay and with another one
InitDelay ==
  InitWith(DelayCfgs, {Devices}, {CleanEnv})

\* a guard held by the main task is dropped when handle_autotoggle_command
\* is left
Released(holder) == IF holder = Main THEN Free ELSE holder

\* handle_autotoggle_command returns res (or panics): its locals are
\* dropped, which detaches the stored JoinHandle and releases the guards it
\* holds.  The spawned actions keep their clones of desired_state and of the
\* context, and go on until the runtime is shut down
Return(pc, res) ==
  /\ mainpc' = pc
  /\ result' = res
  /\ num_devices_open' = 0
  /\ pending_action' = 0
  /\ intent_lock' = Released(intent_lock)
  /\ context_lock' = Released(context_lock)
  /\ UNCHANGED <<intent, tasks>>

\* main has logged the error (or unwinds) and the runtime is dropped: an
\* idle action is dropped at once, a running one goes on until one of its
\* .await points has to wait
RuntimeShutdown ==
  /\ Exited
  /\ runtime = "running"
  /\ runtime' = "shutdown"
  /\ tasks' = [t \in TaskIds |->
        IF Idle(tasks[t].pc) THEN Ended([tasks[t] EXCEPT !.aborted = TRUE], "dropped")
        ELSE IF Alive(tasks[t].pc) THEN [tasks[t] EXCEPT !.aborted = TRUE]
        ELSE tasks[t]]
  /\ UNCHANGED <<call, world, light, mainpc, result, locals, intent, locks,
                 edges, applyLog, overtaken, feeds>>

(***************************************************************************)
(* Session driver: the startup match (main.rs 648-672)                     *)
(***************************************************************************)
\* Litra::new()? fails: the error is returned
ContextError ==
  /\ mainpc = "startup"
  /\ Return("returned", "DeviceError")
  /\ UNCHANGED <<call, runtime, feeds, world, light, edges, applyLog, overtaken>>

StartupLock ==
  /\ mainpc = "startup"
  /\ context_lock = Free
  /\ context_lock' = Main
  /\ mainpc' = "startup_match"
  /\ UNCHANGED <<call, runtime, feeds, world, light, result, locals, intent, intent_lock, tasks,
                 edges, applyLog, overtaken>>

\* mutant of StartupMatch: the result of the match is only logged
StartupMatch_informational ==
  /\ mainpc = "startup_match"
  /\ mainpc' = "read"
  /\ context_lock' = Free
  /\ UNCHANGED <<result, locals, intent, intent_lock, tasks>>
  /\ UNCHANGED <<call, runtime, feeds, world, light, edges, applyLog, overtaken>>

StartupMatch ==
  /\ mainpc = "startup_match"
  /\ \E env \in envs :
       LET m == get_all_supported_devices(connected, connected, cfg, env)
       IN IF m.err # "Ok"
          THEN Return("returned", m.err)
          ELSE IF info_enabled(env)
                  /\ \E d \in Range(m.handles) : SerialPanics(d, env)
          THEN Return("panicked", "panic")
          ELSE /\ mainpc' = "read"
               /\ context_lock' = Free
               /\ UNCHANGED <<result, locals, intent, intent_lock, tasks>>
  /\ UNCHANGED <<call, runtime, feeds, world, light, edges, applyLog, overtaken>>

(***************************************************************************)
(* Linux ingest loop (main.rs 695-783)                                     *)
(***************************************************************************)
Events == {"open", "close", "other"}

Batches == UNION {[1..n -> Events] : n \in 1..MaxBatch}

\* mutant of saturating_sub: the subtraction does not stop at zero
saturating_sub_unchecked(n) == n - 1

saturating_sub(n) == IF n = 0 THEN 0 ELSE n - 1

\* the counter after the events of one batch (main.rs 707-717)
RECURSIVE CountAfter(_, _)
CountAfter(n, batch) ==
  IF batch = <<>> THEN n
  ELSE CountAfter(
         CASE Head(batch) = "open" -> n + 1
           [] Head(batch) = "close" -> saturating_sub(n)
           [] OTHER -> n,
         Tail(batch))

\* the largest value the counter takes during a batch
RECURSIVE PeakCount(_, _)
PeakCount(n, batch) ==
  IF batch = <<>> THEN n
  ELSE LET m == CountAfter(n, <<Head(batch)>>)
           p == PeakCount(m, Tail(batch))
       IN IF n > p THEN n ELSE p

\* the values the counter can have after one batch read at value n, over
\* the batches that keep it within MaxOpen
CountsAfterBatch ==
  [n \in 0..MaxOpen |->
     {CountAfter(n, batch) : batch \in {b \in Batches : PeakCount(n, b) <= MaxOpen}}]

\* read_events_blocking returns a batch of events: the counter is updated
\* and the loop goes on to forward an edge unless the counter is unchanged
ReadEvents ==
  /\ mainpc = "read"
  /\ \E n2 \in CountsAfterBatch[num_devices_open] :
       /\ num_devices_open' = n2
       /\ IF n2 = num_devices_open
          THEN mainpc' = "read"
          ELSE Len(edges) < MaxEdges /\ mainpc' = "lock_intent"
  /\ UNCHANGED <<call, runtime, feeds, world, light, result, pending_action, intent, locks, tasks,
                 edges, applyLog, overtaken>>

\* mutant of ReadError: the failed read ends the loop and Ok(()) is returned
ReadError_ends_loop ==
  /\ mainpc = "read"
  /\ Return("returned", "Ok")
  /\ UNCHANGED <<call, runtime, feeds, world, light, edges, applyLog, overtaken>>

\* read_events_blocking fails: the error is returned with `?`
ReadError ==
  /\ mainpc = "read"
  /\ Return("returned", "IoError")
  /\ UNCHANGED <<call, runtime, feeds, world, light, edges, applyLog, overtaken>>

\* the stored action is no longer in its sleep (history)
PendingPastSleep ==
  pending_action # 0 /\ tasks[pending_action].pc # "sleeping"

\* mutant of MainLockIntent: the ingest path takes the context lock as well
\* before it writes
MainLockIntent_takes_context ==
  /\ mainpc = "lock_intent"
  /\ intent_lock = Free /\ context_lock = Free
  /\ intent_lock' = Main
  /\ context_lock' = Main
  /\ mainpc' = "write"
  /\ UNCHANGED <<call, runtime, feeds, world, light, result, locals, intent, tasks,
                 edges, applyLog, overtaken>>

\* desired_state.lock().await on the main task
MainLockIntent ==
  /\ mainpc = "lock_intent"
  /\ intent_lock = Free
  /\ intent_lock' = Main
  /\ mainpc' = "write"
  /\ UNCHANGED <<call, runtime, feeds, world, light, result, locals, intent, context_lock, tasks,
                 edges, applyLog, overtaken>>

\* mutant of IntentToWrite: a value still in the cell is not overwritten
IntentToWrite_keeps_old(old, n) ==
  IF old # NoIntent THEN old ELSE IF n = 0 THEN Some(FALSE) ELSE Some(TRUE)

\* the value the ingest loop stores (main.rs 725-735)
IntentToWrite(old, n) == IF n = 0 THEN Some(FALSE) ELSE Some(TRUE)

\* *state = Some(..), and the guard is dropped at the end of the block
WriteIntent ==
  /\ mainpc = "write"
  /\ desired_state' = IntentToWrite(desired_state, num_devices_open)
  /\ edges' = Append(edges, num_devices_open # 0)
  /\ intent_edge' = Len(edges')
  /\ intent_lock' = Free
  /\ mainpc' = "cancel"
  /\ overtaken' = (overtaken \/ PendingPastSleep)
  /\ UNCHANGED <<call, runtime, feeds, world, light, result, locals, context_lock, tasks, applyLog>>

\* mutants of abort: one that only marks the task, one that does nothing
abort_only_marks(ts, t) ==
  [ts EXCEPT ![t].aborted = TRUE]

abort_forgotten(ts, t) == ts

\* JoinHandle::abort: an idle task is ended, a running one is marked
abort(ts, t) ==
  IF Idle(ts[t].pc)
  THEN [ts EXCEPT ![t] = Ended([@ EXCEPT !.aborted = TRUE], "cancelled")]
  ELSE [ts EXCEPT ![t].aborted = TRUE]

\* if let Some(handle) = pending_action.take() { handle.abort(); }
CancelPending ==
  /\ mainpc = "cancel"
  /\ tasks' = IF pending_action # 0 THEN abort(tasks, pending_action) ELSE tasks
  /\ pending_action' = 0
  /\ mainpc' = "spawn"
  /\ overtaken' = (overtaken \/ PendingPastSleep)
  /\ UNCHANGED <<call, runtime, feeds, world, light, result, num_devices_open, intent, locks,
                 edges, applyLog>>

\* mutant of SleepFor: the action sleeps the default delay
SleepFor_default(delay) == DefaultDelay

\* the duration of tokio::time::sleep in the spawned action
SleepFor(delay) == delay

\* mutant of SpawnAction: the JoinHandle of the new action is not stored
SpawnAction_not_stored ==
  /\ mainpc = "spawn"
  /\ tasks' = [tasks EXCEPT ![Len(edges)].pc = "sleeping",
                            ![Len(edges)].delay = SleepFor(cfg.delay)]
  /\ mainpc' = "read"
  /\ UNCHANGED <<call, runtime, feeds, world, light, result, locals, intent, locks,
                 edges, applyLog, overtaken>>

\* pending_action = Some(tokio::spawn(..)): the task of edge n is task n
SpawnAction ==
  /\ mainpc = "spawn"
  /\ tasks' = [tasks EXCEPT ![Len(edges)].pc = "sleeping",
                            ![Len(edges)].delay = SleepFor(cfg.delay)]
  /\ pending_action' = Len(edges)
  /\ mainpc' = "read"
  /\ UNCHANGED <<call, runtime, feeds, world, light, result, num_devices_open, intent, locks,
                 edges, applyLog, overtaken>>

(***************************************************************************)
(* The delayed action spawned for an edge (main.rs 750-782)                *)
(***************************************************************************)
\* tokio::time::sleep(delay) is over and the task is polled again
TimerExpires(t) ==
  /\ tasks[t].pc = "sleeping"
  /\ tasks' = [tasks EXCEPT ![t].pc = "running"]
  /\ UNCHANGED <<call, runtime, feeds, world, light, mainpc, result, locals, intent, locks,
                 edges, applyLog, overtaken>>

\* mutant of AfterLockAttempt: the mutex is taken whoever holds it
AfterLockAttempt_barging(holder, aborted, got, wait) == got

\* where a task goes when a lock().await finds the mutex held by `holder`:
\* it takes a free mutex at once, waits for a held one, and a task marked by
\* abort is ended when it has to wait
AfterLockAttempt(holder, aborted, got, wait) ==
  IF holder = Free THEN got
  ELSE IF aborted THEN "cancelled"
  ELSE wait

\* the task record at the new position
At(task, pc) ==
  IF pc = "cancelled" THEN Ended(task, pc) ELSE [task EXCEPT !.pc = pc]

\* desired_state_clone.lock().await
TaskLockIntent(t) ==
  /\ \/ tasks[t].pc = "running"
     \/ tasks[t].pc = "wait_intent" /\ intent_lock = Free
  /\ LET pc2 == AfterLockAttempt(intent_lock, tasks[t].aborted,
                                 "intent_cs", "wait_intent")
     IN /\ tasks' = [tasks EXCEPT ![t] = At(@, pc2)]
        /\ intent_lock' = IF pc2 = "intent_cs" THEN t ELSE intent_lock
  /\ UNCHANGED <<call, runtime, feeds, world, light, mainpc, result, locals, intent, context_lock,
                 edges, applyLog, overtaken>>

\* mutant of TakenState: the cell is read after it has been cleared
TakenState_after_clear(cell) == NoIntent

\* mutant of LeftAfterTake: the value is read and left in the cell
LeftAfterTake_keeps(cell) == cell

\* state.take(): the value read, and the value left in the cell
TakenState(cell) == cell
LeftAfterTake(cell) == NoIntent

\* mutant of TakeIntent: the guard of desired_state is not dropped after the
\* take, the action keeps it
TakeIntent_keeps_guard(t) ==
  /\ tasks[t].pc = "intent_cs"
  /\ tasks' = [tasks EXCEPT ![t] =
        IF TakenState(desired_state) # NoIntent
        THEN [@ EXCEPT !.state = TakenState(desired_state), !.edge = intent_edge,
                       !.pc = "has_state"]
        ELSE Ended(@, "done")]
  /\ desired_state' = LeftAfterTake(desired_state)
  /\ intent_edge' = IF desired_state' # NoIntent THEN intent_edge ELSE 0
  /\ UNCHANGED <<call, runtime, feeds, world, light, mainpc, result, locals, locks,
                 edges, applyLog, overtaken>>

\* let state = { let mut state = ..; state.take() };
TakeIntent(t) ==
  /\ tasks[t].pc = "intent_cs"
  /\ tasks' = [tasks EXCEPT ![t] =
        IF TakenState(desired_state) # NoIntent
        THEN [@ EXCEPT !.state = TakenState(desired_state), !.edge = intent_edge,
                       !.pc = "has_state"]
        ELSE Ended(@, "done")]
  /\ desired_state' = LeftAfterTake(desired_state)
  /\ intent_edge' = IF desired_state' # NoIntent THEN intent_edge ELSE 0
  /\ intent_lock' = Free
  /\ UNCHANGED <<call, runtime, feeds, world, light, mainpc, result, locals, context_lock,
                 edges, applyLog, overtaken>>

\* context_clone.lock().await
TaskLockContext(t) ==
  /\ \/ tasks[t].pc = "has_state"
     \/ tasks[t].pc = "wait_ctx" /\ context_lock = Free
  /\ LET pc2 == AfterLockAttempt(context_lock, tasks[t].aborted,
                                 "applying", "wait_ctx")
     IN /\ tasks' = [tasks EXCEPT ![t] = At(@, pc2)]
        /\ context_lock' = IF pc2 = "applying" THEN t ELSE context_lock
  /\ UNCHANGED <<call, runtime, feeds, world, light, mainpc, result, locals, intent, intent_lock,
                 edges, applyLog, overtaken>>

\* what handle_autotoggle_command does with the result r of a scheduled
\* apply: `let _ = ..` drops it, so the loop goes on where it is
AfterApply(r, pc) == pc

\* the apply under the context lock; the guard is dropped when the task ends
Apply(t) ==
  /\ tasks[t].pc = "applying"
  /\ \E env \in envs :
       LET r == IF Unwrap(tasks[t].state)
                THEN turn_on_all_supported_devices_and_log(
                       connected, connected, cfg, env, light)
                ELSE turn_off_all_supported_devices_and_log(
                       connected, connected, cfg, env, light)
       IN /\ light' = r.light
          /\ applyLog' = Append(applyLog,
               [task |-> t, on |-> Unwrap(tasks[t].state), edge |-> tasks[t].edge,
                err |-> r.err, not_found_log |-> r.not_found_log,
                attempts |-> r.attempts, clean |-> IsClean(env)])
          /\ tasks' = [tasks EXCEPT ![t] =
                Ended(@, IF r.panicked THEN "panicked" ELSE "done")]
          /\ mainpc' = AfterApply(r, mainpc)
  /\ context_lock' = Free
  /\ UNCHANGED <<call, runtime, feeds, world, result, locals, intent, intent_lock, edges, overtaken>>

(***************************************************************************)
(* Windows ingest loop (main.rs 844-960): the registry is polled every     *)
(* REGISTRY_POLL_INTERVAL_MS and a change of the polled value is forwarded *)
(***************************************************************************)
\* mutant of StateChanged: every poll counts as a change
StateChanged_always(polled, previous) == TRUE

\* if camera_in_use != previous_camera_in_use
StateChanged(polled, previous) == polled # previous

\* one poll of the registry and the comparison with the previous one
WinPoll ==
  /\ mainpc = "read"
  /\ \E polled \in BOOLEAN :
       /\ camera_in_use' = polled
       /\ IF StateChanged(polled, previous_camera_in_use)
          THEN /\ Len(edges) < MaxEdges
               /\ previous_camera_in_use' = polled
               /\ mainpc' = "lock_intent"
          ELSE /\ previous_camera_in_use' = previous_camera_in_use
               /\ mainpc' = "poll_sleep"
  /\ UNCHANGED <<call, runtime, log_line, world, light, result, locals, intent, locks,
                 tasks, edges, applyLog, overtaken>>

\* *state = Some(true) or Some(false), by camera_in_use (main.rs 897-905)
WinWriteIntent ==
  /\ mainpc = "write"
  /\ desired_state' = Some(camera_in_use)
  /\ edges' = Append(edges, camera_in_use)
  /\ intent_edge' = Len(edges')
  /\ intent_lock' = Free
  /\ mainpc' = "cancel"
  /\ overtaken' = (overtaken \/ PendingPastSleep)
  /\ UNCHANGED <<call, runtime, feeds, world, light, result, locals, context_lock, tasks,
                 applyLog>>

\* pending_action = Some(tokio::spawn(..)), then the sleep that ends the
\* iteration
WinSpawnAction ==
  /\ mainpc = "spawn"
  /\ tasks' = [tasks EXCEPT ![Len(edges)].pc = "sleeping",
                            ![Len(edges)].delay = SleepFor(cfg.delay)]
  /\ pending_action' = Len(edges)
  /\ mainpc' = "poll_sleep"
  /\ UNCHANGED <<call, runtime, feeds, world, light, result, num_devices_open, intent,
                 locks, edges, applyLog, overtaken>>

\* tokio::time::sleep(REGISTRY_POLL_INTERVAL_MS) is over
WinPollSleep ==
  /\ mainpc = "poll_sleep"
  /\ mainpc' = "read"
  /\ UNCHANGED <<call, runtime, feeds, world, light, result, locals, intent, locks, tasks,
                 edges, applyLog, overtaken>>

(***************************************************************************)
(* macOS ingest loop (main.rs 559-619): the lines of `log stream`.  A line *)
(* is what the loop asks of it: whether it starts with "Filtering the log  *)
(* data" and whether it contains the startRunning and stopRunning markers. *)
(***************************************************************************)
LogLines == [header : BOOLEAN, start : BOOLEAN, stop : BOOLEAN, read : {TRUE}]

\* mutant of HasMarker: every line counts as an event of a video device
HasMarker_any(line) == TRUE

\* log_line.contains("AVCaptureSession_Tundra startRunning") or
\* log_line.contains("AVCaptureSession_Tundra stopRunning")
HasMarker(line) == line.start \/ line.stop

\* the value stored for a line with a marker: the start marker is looked
\* for first
StateOfLine(line) == IF line.start THEN Some(TRUE) ELSE Some(FALSE)

\* the id of the action the next tokio::spawn creates
NextTask == Cardinality({t \in TaskIds : tasks[t].pc # "unborn"}) + 1

\* reader.next_line() gives a line: the header is skipped, a line with a
\* marker goes on to write CameraIntent, any other goes on to the cancel
MacReadLine ==
  /\ mainpc = "read"
  /\ \E line \in LogLines :
       IF line.header
       THEN log_line' = NoLine /\ mainpc' = "read"
       ELSE /\ NextTask <= MaxLines
            /\ log_line' = line
            /\ mainpc' = IF HasMarker(line) THEN "lock_intent" ELSE "cancel"
  /\ UNCHANGED <<call, runtime, camera_in_use, previous_camera_in_use, world, light,
                 result, locals, intent, locks, tasks, edges, applyLog, overtaken>>

\* the `log` process cannot be started (.spawn()?) or its output ends:
\* Err(CliError::IoError) is returned
MacLogEnds ==
  /\ mainpc = "read"
  /\ Return("returned", "IoError")
  /\ UNCHANGED <<call, runtime, feeds, world, light, edges, applyLog, overtaken>>

\* reader.next_line() fails: .expect(..) panics
MacReadFails ==
  /\ mainpc = "read"
  /\ Return("panicked", "panic")
  /\ UNCHANGED <<call, runtime, feeds, world, light, edges, applyLog, overtaken>>

\* *state = Some(true) or Some(false), by the marker (main.rs 565-575)
MacWriteIntent ==
  /\ mainpc = "write"
  /\ desired_state' = StateOfLine(log_line)
  /\ edges' = Append(edges, Unwrap(StateOfLine(log_line)))
  /\ intent_edge' = Len(edges')
  /\ intent_lock' = Free
  /\ mainpc' = "cancel"
  /\ overtaken' = (overtaken \/ PendingPastSleep)
  /\ UNCHANGED <<call, runtime, feeds, world, light, result, locals, context_lock, tasks,
                 applyLog>>

\* pending_action = Some(tokio::spawn(..)); the line is dropped at the end
\* of the iteration
MacSpawnAction ==
  /\ mainpc = "spawn"
  /\ tasks' = [tasks EXCEPT ![NextTask].pc = "sleeping",
                            ![NextTask].delay = SleepFor(cfg.delay)]
  /\ pending_action' = NextTask
  /\ log_line' = NoLine
  /\ mainpc' = "read"
  /\ UNCHANGED <<call, runtime, camera_in_use, previous_camera_in_use, world, light,
                 result, num_devices_open, intent, locks, edges, applyLog,
                 overtaken>>

\* main: the exit code for the result of handle_autotoggle_command
main_exit_code(res) ==
  IF res # "Ok" THEN "FAILURE" ELSE "SUCCESS"

Next ==
  \/ ContextError
  \/ StartupLock
  \/ StartupMatch
  \/ ReadEvents
  \/ ReadError
  \/ MainLockIntent
  \/ WriteIntent
  \/ CancelPending
  \/ SpawnAction
  \/ RuntimeShutdown
  \/ \E t \in TaskIds : TimerExpires(t)
  \/ \E t \in TaskIds : TaskLockIntent(t)
  \/ \E t \in TaskIds : TakeIntent(t)
  \/ \E t \in TaskIds : TaskLockContext(t)
  \/ \E t \in TaskIds : Apply(t)

Spec == Init /\ [][Next]_vars

SpecFaults == InitFaults /\ [][Next]_vars

SpecStartup == InitStartup /\ [][Next]_vars

\* the runs the startup match is checked in: a configuration, the devices
\* connected and the faults of the device subsystem
StartupWorlds ==
  LET StartupCfg(serial_number, device_path, require_device) ==
        [serial_number |-> serial_number, device_path |-> device_path,
         device_type |-> None, require_device |-> require_device,
         back |-> FALSE, delay |-> DefaultDelay]
      StartupWorld(c, conn, env) ==
        [cfg |-> c, connected |-> conn, env |-> env]
  IN
  { StartupWorld(StartupCfg(None, None, FALSE), {}, CleanEnv),
    StartupWorld(StartupCfg(None, None, TRUE), {}, CleanEnv),
    StartupWorld(StartupCfg(<<"S3">>, None, TRUE), Devices, CleanEnv),
    StartupWorld(StartupCfg(<<"S9">>, None, TRUE), Devices, CleanEnv),
    StartupWorld(StartupCfg(<<"S9">>, None, FALSE), {}, CleanEnv),
    StartupWorld(StartupCfg(<<"S1">>, <<"/dev/hidraw0">>, FALSE), Devices, CleanEnv),
    StartupWorld(StartupCfg(None, None, FALSE), Devices,
                 [CleanEnv EXCEPT !.refresh_ok = FALSE]),
    StartupWorld(StartupCfg(None, None, TRUE), Devices,
                 [CleanEnv EXCEPT !.fault = [d \in Devices |-> "open"]]),
    StartupWorld(StartupCfg(None, <<"/dev/hidraw2">>, TRUE), Devices,
                 [CleanEnv EXCEPT !.fault[3] = "serial"]),
    StartupWorld(StartupCfg(None, <<"/dev/hidraw2">>, FALSE), Devices,
                 [CleanEnv EXCEPT !.fault[3] = "serial", !.log_level = "warn"]) }

InitStartupMatch ==
  \E w \in StartupWorlds : InitWith({w.cfg}, {w.connected}, {w.env})

SpecStartupMatch == InitStartupMatch /\ [][Next]_vars

SpecDelay == InitDelay /\ [][Next]_vars

\* the Windows build: the same startup and delayed actions, its own loop
NextWindows ==
  \/ ContextError
  \/ StartupLock
  \/ StartupMatch
  \/ WinPoll
  \/ MainLockIntent
  \/ WinWriteIntent
  \/ CancelPending
  \/ WinSpawnAction
  \/ WinPollSleep
  \/ RuntimeShutdown
  \/ \E t \in TaskIds : TimerExpires(t)
  \/ \E t \in TaskIds : TaskLockIntent(t)
  \/ \E t \in TaskIds : TakeIntent(t)
  \/ \E t \in TaskIds : TaskLockContext(t)
  \/ \E t \in TaskIds : Apply(t)

SpecWindows == Init /\ [][NextWindows]_vars

\* the macOS build: the same startup and delayed actions, its own loop
NextMacos ==
  \/ ContextError
  \/ StartupLock
  \/ StartupMatch
  \/ MacReadLine
  \/ MacLogEnds
  \/ MacReadFails
  \/ MainLockIntent
  \/ MacWriteIntent
  \/ CancelPending
  \/ MacSpawnAction
  \/ RuntimeShutdown
  \/ \E t \in TaskIds : TimerExpires(t)
  \/ \E t \in TaskIds : TaskLockIntent(t)
  \/ \E t \in TaskIds : TakeIntent(t)
  \/ \E t \in TaskIds : TaskLockContext(t)
  \/ \E t \in TaskIds : Apply(t)

\* no device fault occurs; the devices are connected
InitMacos ==
  InitWith({c \in CoordCfgs : ~c.require_device}, {Devices}, {CleanEnv})

SpecMacos == InitMacos /\ [][NextMacos]_vars

(***************************************************************************)
(* The functions called on their own: SpecCalls draws the arguments of one *)
(* call and applies the function to them.                                  *)
(***************************************************************************)
\* the coordinator is not running while a function is called on its own
CoordinatorAtRest ==
  /\ cfg = [serial_number |-> None, device_path |-> None, device_type |-> None,
            require_device |-> FALSE, back |-> FALSE, delay |-> DefaultDelay]
  /\ connected = {}
  /\ envs = {CleanEnv}
  /\ light = [d \in Devices |-> [on |-> "unknown", back |-> "unknown"]]
  /\ mainpc = "startup"
  /\ result = "running"
  /\ runtime = "running"
  /\ num_devices_open = 0
  /\ pending_action = 0
  /\ desired_state = NoIntent
  /\ intent_lock = Free
  /\ context_lock = Free
  /\ tasks = [t \in TaskIds |-> UnbornTask]
  /\ edges = <<>>
  /\ intent_edge = 0
  /\ applyLog = <<>>
  /\ overtaken = FALSE
  /\ camera_in_use = FALSE
  /\ previous_camera_in_use = FALSE
  /\ log_line = NoLine

coordinator == <<world, light, mainpc, result, runtime, locals, intent, locks, tasks,
                 edges, applyLog, overtaken, feeds>>

\* the call returns out
Returns(out) ==
  /\ ~call.done
  /\ call' = [call EXCEPT !.done = TRUE, !.out = out]
  /\ UNCHANGED coordinator

\* the arguments of turn_on/turn_off_all_supported_devices_and_log
ApplyFaults == {"ok", "set", "back", "set_back"}

ApplyCalls ==
  [op : {"apply"},
   context : {{}},
   conn : SUBSET Devices,
   cfg : [serial_number : {None}, device_path : {None},
          device_type : {None, <<"glow">>}, require_device : BOOLEAN, back : BOOLEAN],
   env : [refresh_ok : {TRUE}, fault : [Devices -> ApplyFaults],
          log_level : {"info"}],
   on : BOOLEAN,
   done : {FALSE}, out : {None}]

CallApply ==
  /\ call.op = "apply"
  /\ Returns(IF call.on
             THEN turn_on_all_supported_devices_and_log(
                    call.context, call.conn, call.cfg, call.env, light)
             ELSE turn_off_all_supported_devices_and_log(
                    call.context, call.conn, call.cfg, call.env, light))

\* the filters a caller can give: none, one kind, or several kinds
FilterCfgs ==
  [serial_number : {None, <<"S1">>, <<"S3">>}, device_path : {None, <<"/dev/hidraw1">>},
   device_type : {None, <<"glow">>, <<"beam_lx">>}, require_device : BOOLEAN, back : {FALSE}]

FilterCount(c) ==
  Cardinality({k \in {"serial_number", "device_path", "device_type"} : IsSome(c[k])})

\* an apply asked with several filter kinds
MultiFilterApplyCalls ==
  [op : {"apply"}, context : {{}}, conn : {Devices},
   cfg : {c \in FilterCfgs : FilterCount(c) > 1},
   env : {CleanEnv}, on : BOOLEAN, done : {FALSE}, out : {None}]

\* an apply whose refresh of the connected devices fails
RefreshFailApplyCalls ==
  [op : {"apply"}, context : {{}, Devices}, conn : {Devices},
   cfg : {c \in FilterCfgs : FilterCount(c) = 0},
   env : {[CleanEnv EXCEPT !.refresh_ok = FALSE]},
   on : BOOLEAN, done : {FALSE}, out : {None}]

\* an apply to devices of which one fails the read of its serial number,
\* with the logger at its default level and at a level that leaves out the
\* info! lines
SerialFailApplyCalls ==
  [op : {"apply"}, context : {{}}, conn : {{3}, {1, 3}, Devices},
   cfg : [serial_number : {None}, device_path : {None}, device_type : {None},
          require_device : {FALSE}, back : BOOLEAN],
   env : {[CleanEnv EXCEPT !.fault[1] = "serial"],
          [CleanEnv EXCEPT !.fault[3] = "serial"],
          [CleanEnv EXCEPT !.fault[3] = "serial", !.log_level = "warn"],
          [CleanEnv EXCEPT !.fault[3] = "serial_set", !.log_level = "warn"],
          [CleanEnv EXCEPT !.fault[3] = "serial_set", !.log_level = "error"]},
   on : BOOLEAN, done : {FALSE}, out : {None}]

\* an apply that finds no device, with the logger at each level
QuietApplyCalls ==
  [op : {"apply"}, context : {{}}, conn : {{}, Devices},
   cfg : [serial_number : {None}, device_path : {None, <<"/dev/hidraw7">>},
          device_type : {None}, require_device : {FALSE}, back : {FALSE}],
   env : {[CleanEnv EXCEPT !.log_level = l] : l \in LogLevels},
   on : BOOLEAN, done : {FALSE}, out : {None}]

\* one context used through a session, as handle_autotoggle_command uses
\* it: created (Litra::new()) and matched at startup, then given to a first
\* and a second scheduled apply, with the devices connected at each time
HotplugCfgs ==
  {c \in FilterCfgs : FilterCount(c) <= 1 /\ ~c.require_device
                        /\ c.serial_number # <<"S1">>}

HotplugCalls ==
  [op : {"hotplug"},
   at_startup : SUBSET Devices, at_first : SUBSET Devices,
   at_second : SUBSET Devices,
   cfg : HotplugCfgs, on : BOOLEAN, done : {FALSE}, out : {None}]

SessionApplies(at_startup, at_first, at_second, c, on) ==
  LET startup == get_all_supported_devices(at_startup, at_startup, c, CleanEnv)
      first == ApplyAll(startup.context, at_first, c, CleanEnv, light, on)
      second == ApplyAll(first.context, at_second, c, CleanEnv, first.light, ~on)
  IN [startup |-> startup, first |-> first, second |-> second,
      second_calls |-> MatcherCalls(first.context, at_second, c, CleanEnv)]

CallHotplug ==
  /\ call.op = "hotplug"
  /\ Returns(SessionApplies(call.at_startup, call.at_first, call.at_second,
                            call.cfg, call.on))

\* one iteration of the Linux loop up to the write of CameraIntent (main.rs
\* 697-735): the counter after the batch, whether an edge is forwarded, and
\* the value then written
ReadBatch(n, batch) ==
  LET n2 == CountAfter(n, batch)
  IN [num_devices_open |-> n2,
      forwards |-> n2 # n,
      state |-> IF n2 # n THEN IntentToWrite(NoIntent, n2) ELSE NoIntent]

\* the counter values and the batches the loop is run with
BatchCalls ==
  {[op |-> "read_batch", num_devices_open |-> n, batch |-> b,
    done |-> FALSE, out |-> None] :
     n \in 0..MaxOpen, b \in Batches}

CallReadBatch ==
  /\ call.op = "read_batch"
  /\ Returns(ReadBatch(call.num_devices_open, call.batch))

\* the arguments of validate_single_filter
ValidateFilterCalls ==
  [op : {"validate_single_filter"},
   serial_number : {None, <<"S1">>, <<"None">>},
   device_path : {None, <<"/dev/hidraw1">>},
   device_type : {None, <<"glow">>, <<"Glow">>}, done : {FALSE}, out : {None}]

CallValidateSingleFilter ==
  /\ call.op = "validate_single_filter"
  /\ Returns(validate_single_filter(
               call.serial_number, call.device_path, call.device_type))

\* the arguments of get_all_supported_devices
MatchEnvs ==
  { CleanEnv,
    [CleanEnv EXCEPT !.refresh_ok = FALSE],
    [CleanEnv EXCEPT !.fault[1] = "open"],
    [CleanEnv EXCEPT !.fault[3] = "serial"],
    [CleanEnv EXCEPT !.fault = [d \in Devices |-> "open"]] }

MatchCalls ==
  [op : {"get_all_supported_devices"}, context : {{}, Devices},
   conn : {{}, {1}, {2, 3}, Devices},
   cfg : FilterCfgs, env : MatchEnvs, done : {FALSE}, out : {None}]

CallMatch ==
  /\ call.op = "get_all_supported_devices"
  /\ Returns([res |-> get_all_supported_devices(
                         call.context, call.conn, call.cfg, call.env),
              calls |-> MatcherCalls(call.context, call.conn, call.cfg, call.env)])

\* the arguments of check_device_filters and the device it is applied to
CheckFilterCalls ==
  [op : {"check_device_filters"},
   device_path : {None, <<"/dev/hidraw0">>, <<"/dev/hidraw1">>, <<"/dev/hidraw2">>,
                  <<"/dev/hidraw">>, <<"/dev/HIDRAW0">>},
   device_type : {None, <<"glow">>, <<"beam">>, <<"beam_lx">>, <<"Glow">>, <<"beam_l">>},
   device : Devices, done : {FALSE}, out : {None}]

CallCheckDeviceFilters ==
  /\ call.op = "check_device_filters"
  /\ Returns(check_device_filters(call.device_path, call.device_type, call.device))

\* the version strings is_newer_version is applied to
VersionStrings ==
  { <<"1", ".", "0", ".", "0">>,
    <<"v", "1", ".", "0", ".", "0">>,
    <<"1", ".", "0", ".", "1">>,
    <<"1", ".", "2">>,
    <<"1", ".", "2", ".", "0">>,
    <<"1", ".", "2", ".", "3">>,
    <<"1", ".", "1", "0", ".", "0">>,
    <<"1", ".", "9", ".", "0">>,
    <<"1", ".", "0", "1", ".", "0">>,
    <<"1", ".", "1", ".", "0">>,
    <<"v", "2", ".", "0", ".", "0">>,
    <<"0", ".", "9", ".", "9">>,
    <<"2">>,
    <<"1", ".">> \o U32MaxDigits \o <<".", "0">>,
    <<"1", ".", "4", "2", "9", "4", "9", "6", "7", "2", "9", "6", ".", "0">>,
    <<"v", "v", "1", ".", "0">>,
    <<"1", ".", "0", ".", "0", "-", "r", "c">>,
    <<"1", ".", ".", "2">>,
    <<"1", ".", "+", "3">>,
    <<>> }

VersionCalls ==
  [op : {"is_newer_version"}, current : VersionStrings, remote : VersionStrings,
   done : {FALSE}, out : {None}]

CallIsNewerVersion ==
  /\ call.op = "is_newer_version"
  /\ Returns(is_newer_version(call.current, call.remote))

\* the arguments of validate_device_type
DeviceTypeNames ==
  {"glow", "beam", "beam_lx", "Glow", "BEAM", "Beam_LX", "", "beam_lx ", "beamlx", "litra",
   "None"}

ValidateTypeCalls ==
  [op : {"validate_device_type"}, device_type : DeviceTypeNames,
   done : {FALSE}, out : {None}]

CallValidateDeviceType ==
  /\ call.op = "validate_device_type"
  /\ Returns(validate_device_type(call.device_type))

\* Config::default(): a configuration file that sets nothing
EmptyConfig ==
  [serial_number |-> None, device_path |-> None, device_type |-> None,
   require_device |-> <<>>, video_device |-> None, delay |-> <<>>,
   verbose |-> <<>>, back |-> <<>>, check_updates |-> <<>>]

\* the configurations the files hold
Configs ==
  { EmptyConfig,
    [EmptyConfig EXCEPT !.serial_number = <<"S9">>, !.require_device = <<TRUE>>,
                        !.video_device = <<"/dev/video1">>, !.delay = <<500>>,
                        !.verbose = <<TRUE>>, !.back = <<TRUE>>,
                        !.check_updates = <<TRUE>>],
    [EmptyConfig EXCEPT !.device_path = <<"/dev/hidraw0">>, !.require_device = <<FALSE>>,
                        !.delay = <<1500>>, !.verbose = <<FALSE>>,
                        !.back = <<FALSE>>, !.check_updates = <<FALSE>>],
    [EmptyConfig EXCEPT !.device_type = <<"beam">>, !.delay = <<0>>],
    [EmptyConfig EXCEPT !.device_type = <<"Glow">>],
    [EmptyConfig EXCEPT !.device_type = <<"">>, !.serial_number = <<"S9">>],
    [EmptyConfig EXCEPT !.serial_number = <<"S9">>, !.device_path = <<"/dev/hidraw0">>],
    [EmptyConfig EXCEPT !.device_path = <<"/dev/hidraw0">>, !.device_type = <<"glow">>] }

ConfigFiles ==
  {[readable |-> FALSE, parses |-> FALSE, config |-> EmptyConfig],
   [readable |-> TRUE, parses |-> FALSE, config |-> EmptyConfig]}
    \cup [readable : {TRUE}, parses : {TRUE}, config : Configs]

LoadCalls ==
  [op : {"load_config_file"}, file : ConfigFiles, done : {FALSE}, out : {None}]

CallLoadConfigFile ==
  /\ call.op = "load_config_file"
  /\ Returns(load_config_file(call.file))

\* the command lines: each option given or not
Argvs ==
  [config_file : {<<>>} \cup {<<f>> : f \in ConfigFiles},
   serial_number : {None, <<"S1">>},
   device_path : {None, <<"/dev/hidraw1">>},
   device_type : {None, <<"glow">>, <<"Beam">>},
   require_device : BOOLEAN,
   video_device : {None, <<"/dev/video0">>},
   delay : {<<>>, <<1500>>, <<200>>},
   verbose : BOOLEAN,
   back : BOOLEAN,
   check_updates : {FALSE}]

MergeCalls ==
  [op : {"merge_config_with_cli"}, argv : Argvs, done : {FALSE}, out : {None}]

\* main: Cli::parse() and merge_config_with_cli(args)
CallMerge ==
  /\ call.op = "merge_config_with_cli"
  /\ Returns(merge_config_with_cli(parse(call.argv)))

InitCalls ==
  /\ CoordinatorAtRest
  /\ \/ call \in ApplyCalls
     \/ call \in MultiFilterApplyCalls
     \/ call \in RefreshFailApplyCalls
     \/ call \in SerialFailApplyCalls
     \/ call \in QuietApplyCalls
     \/ call \in HotplugCalls
     \/ call \in ValidateFilterCalls
     \/ call \in MatchCalls
     \/ call \in CheckFilterCalls
     \/ call \in ValidateTypeCalls
     \/ call \in LoadCalls
     \/ call \in MergeCalls
     \/ call \in VersionCalls
     \/ call \in BatchCalls

NextCalls ==
  \/ CallApply
  \/ CallValidateSingleFilter
  \/ CallMatch
  \/ CallCheckDeviceFilters
  \/ CallValidateDeviceType
  \/ CallLoadConfigFile
  \/ CallMerge
  \/ CallIsNewerVersion
  \/ CallHotplug
  \/ CallReadBatch

SpecCalls == InitCalls /\ [][NextCalls]_vars

(***************************************************************************)
(* Properties                                                              *)
(***************************************************************************)
LastEdge == edges[Len(edges)]

Applied == {applyLog[i].task : i \in 1..Len(applyLog)}

\* nothing is in flight: the loop waits for events and no action is alive
Settled ==
  /\ mainpc = "read"
  /\ \A t \in TaskIds : ~Alive(tasks[t].pc)

AllClean == \A i \in 1..Len(applyLog) : applyLog[i].clean /\ applyLog[i].err = "Ok"

\* C1: once the edges have stopped and every action has ended, with every
\* device command successful, the connected devices have the power state of
\* the last forwarded edge.
C1_Mirroring ==
  (Settled /\ edges # <<>> /\ AllClean)
    => \A d \in connected : light[d].on = PowerOf(LastEdge)

\* C2: while every edge so far found the previous action still in its sleep
\* (one burst), at most one apply has been executed, and it used the value
\* of the last edge of the burst.
C2_BurstCoalescing ==
  ~overtaken =>
    /\ Len(applyLog) <= 1
    /\ \A i \in 1..Len(applyLog) :
         applyLog[i].on = LastEdge /\ applyLog[i].edge = Len(edges)

C2_Witness ==
  /\ ~overtaken
  /\ Len(edges) = 3
  /\ edges[2] # edges[3]
  /\ Len(applyLog) = 1
  /\ tasks[1].pc = "cancelled" /\ tasks[2].pc = "cancelled"

\* C3: when the actions were created in succession, each cancelling the
\* previous one in its sleep, and the last one has expired and ended, exactly
\* one apply has been executed, by the last action.
C3_ExactlyOneApply ==
  (~overtaken /\ edges # <<>> /\ tasks[Len(edges)].pc = "done")
    => Len(applyLog) = 1 /\ applyLog[1].task = Len(edges)

C3_Witness ==
  /\ ~overtaken
  /\ Len(edges) = 3
  /\ tasks[3].pc = "done"
  /\ Len(applyLog) = 1

\* the tasks inside the enumerate-and-apply section on the device context
InApplySection ==
  {t \in TaskIds : tasks[t].pc = "applying"}
    \cup (IF mainpc = "startup_match" THEN {Main} ELSE {})

\* C4: at most one task is inside the enumerate-and-apply section, and it is
\* the holder of the context lock.
C4_MutualExclusion ==
  /\ Cardinality(InApplySection) <= 1
  /\ \A t \in InApplySection : context_lock = t

C4_Witness ==
  \E t, u \in TaskIds :
    /\ tasks[t].pc = "applying" /\ tasks[t].aborted
    /\ tasks[u].pc = "wait_ctx"

\* the step of task t in which it performs its apply
Applies(t) == tasks[t].pc = "applying" /\ Len(applyLog') = Len(applyLog) + 1

\* the step of task t in which it reads and clears CameraIntent, finding a value
Reads(t) == tasks[t].pc = "intent_cs" /\ tasks'[t].pc = "has_state"

\* the step in which task t is ended by the abort of its JoinHandle
GetsCancelled(t) == tasks[t].pc # "cancelled" /\ tasks'[t].pc = "cancelled"

\* C5 as claimed: the value an action applies is that of the most recent
\* edge at the time the apply runs.
C5_AppliesLatestAtApply ==
  [][\A t \in TaskIds : Applies(t) => tasks[t].edge = Len(edges)]_vars

\* C5, amended: the value an action applies is the value it read from
\* CameraIntent, which is that of the most recent edge at the time of the
\* read; an edge that arrives after the read does not change it.
C5_AppliesLatestAtRead ==
  [][\A t \in TaskIds :
       /\ Reads(t) =>
            /\ tasks'[t].state = Some(LastEdge)
            /\ tasks'[t].edge = Len(edges)
       /\ Applies(t) =>
            /\ applyLog'[Len(applyLog')].on = Unwrap(tasks[t].state)
            /\ applyLog'[Len(applyLog')].on = edges[tasks[t].edge]]_vars

C5_Witness ==
  \E t \in TaskIds : tasks[t].pc = "applying" /\ tasks[t].edge < Len(edges)

\* C6: when the abort of an action races with its timer, either the action
\* is cancelled, and then it has not read CameraIntent, or it fires.
C6_CancelOrFire ==
  [][\A t \in TaskIds : GetsCancelled(t) => tasks[t].state = NoIntent]_vars

\* C7: a cancelled action leaves no residue: the intent written by the last
\* edge is in CameraIntent, or held by an action that has not been
\* cancelled, or has been applied.
C7_NoResidue ==
  (~Exited /\ edges # <<>> /\ mainpc # "write")
    => \/ intent_edge = Len(edges)
       \/ \E t \in TaskIds : tasks[t].edge = Len(edges)
       \/ \E i \in 1..Len(applyLog) : applyLog[i].edge = Len(edges)

\* C8: every action that has been spawned and is not the stored
\* PendingAction has had its abort called, the slot is empty when the new
\* action is created, and at most one action that was not aborted is alive.
C8_AtMostOnePending ==
  ~Exited =>
    /\ \A t \in TaskIds :
         (tasks[t].pc # "unborn" /\ t # pending_action) => tasks[t].aborted
    /\ mainpc = "spawn" => pending_action = 0
    /\ pending_action # 0 =>
         pending_action = (IF mainpc = "cancel" THEN Len(edges) - 1 ELSE Len(edges))
    /\ Cardinality({t \in TaskIds : Alive(tasks[t].pc) /\ ~tasks[t].aborted}) <= 1

C8_Witness ==
  /\ mainpc = "spawn"
  /\ Len(edges) = 3
  /\ tasks[2].pc = "cancelled"
  /\ Alive(tasks[1].pc)

Fatal(err) == err \in {"NoDevicesFound", "DeviceNotFound"}

\* C9: with require_device, once a scheduled apply has found no device and
\* nothing is in flight any more, handle_autotoggle_command has returned
\* that error.
C9_FatalSurfaces ==
  (/\ cfg.require_device
   /\ \E i \in 1..Len(applyLog) : Fatal(applyLog[i].err)
   /\ \A t \in TaskIds : ~Alive(tasks[t].pc))
    => mainpc = "returned" /\ Fatal(result)

\* C10: without require_device a match that finds no device is not fatal:
\* the apply succeeds, logs not-found and sends no command, and
\* handle_autotoggle_command does not return a not-found error.
C10_NoDeviceNotFatal ==
  ~cfg.require_device =>
    /\ ~Fatal(result)
    /\ \A i \in 1..Len(applyLog) :
         /\ ~Fatal(applyLog[i].err)
         /\ connected = {} =>
              /\ applyLog[i].err = "Ok"
              /\ applyLog[i].not_found_log
              /\ applyLog[i].attempts = {}
    /\ connected = {} => \A d \in Devices : light[d].on = "unknown"

C10_Witness ==
  /\ ~cfg.require_device
  /\ connected = {}
  /\ Len(applyLog) = 2
  /\ applyLog[1].not_found_log /\ applyLog[2].not_found_log
  /\ mainpc = "read"

\* the handles the matcher gives to the apply of the call
CallHandles ==
  get_all_supported_devices(call.context, call.conn, call.cfg, call.env)

\* the serial number of every matched handle can be read
SerialsReadable ==
  \A d \in Range(CallHandles.handles) : ~SerialPanics(d, call.env)

\* the number of set_on commands sent to device d with value on
SetCalls(d, on) ==
  Cardinality({i \in 1..Len(call.out.set_calls) : call.out.set_calls[i] = <<d, on>>})

\* C11: whichever devices fail their power-set command, the apply sends
\* every matched handle exactly one power-set command with the requested
\* value, sends no other, and returns success.
C11_FailureIsolation ==
  (call.op = "apply" /\ call.done /\ CallHandles.err = "Ok" /\ SerialsReadable)
    => /\ call.out.err = "Ok"
       /\ \A d \in Range(CallHandles.handles) : SetCalls(d, call.on) = 1
       /\ Len(call.out.set_calls) = Len(CallHandles.handles)

C11_Witness ==
  /\ call.op = "apply" /\ call.done
  /\ Len(CallHandles.handles) = 3
  /\ call.env.fault[2] = "set" /\ call.env.fault[1] = "ok" /\ call.env.fault[3] = "ok"
  /\ SetCalls(1, call.on) = 1 /\ SetCalls(3, call.on) = 1
  /\ call.out.light[2].on = "unknown"
  /\ call.out.light[3].on = PowerOf(call.on)

\* the call of op has returned
Done(op) == call.op = op /\ call.done

\* validate_single_filter refuses exactly more than one filter kind, and
\* the matcher and the apply then fail before any call on the devices
FilterPolicy ==
  /\ Done("validate_single_filter") =>
       call.out = (IF FilterCount(call) > 1 THEN "MultipleFiltersSpecified" ELSE "Ok")
  /\ Done("get_all_supported_devices") =>
       IF FilterCount(call.cfg) > 1
       THEN call.out.res.err = "MultipleFiltersSpecified" /\ call.out.calls = <<>>
       ELSE call.out.res.err # "MultipleFiltersSpecified"
            /\ call.out.calls # <<>> /\ call.out.calls[1] = <<"refresh", 0>>
  /\ (Done("apply") /\ FilterCount(call.cfg) > 1) =>
       call.out.err = "MultipleFiltersSpecified" /\ call.out.set_calls = <<>>

\* a configuration file that was read and parsed sets several filter kinds
LoadedSeveralFilters ==
  /\ Done("load_config_file")
  /\ call.file.readable /\ call.file.parses
  /\ FilterCount(call.file.config) > 1

\* C12 as claimed: with more than one filter kind, load_config_file too
\* fails with MultipleFiltersSpecified.
C12_FilterExclusive ==
  /\ FilterPolicy
  /\ LoadedSeveralFilters => call.out.err = "MultipleFiltersSpecified"

\* C12, amended: load_config_file validates the device type first, so a
\* file with several filter kinds fails with InvalidDeviceType when its
\* device type is not a valid name, and with MultipleFiltersSpecified
\* otherwise; a file with at most one filter kind is not refused for it.
C12_FilterExclusiveAfterType ==
  /\ FilterPolicy
  /\ LoadedSeveralFilters =>
       IF IsSome(call.file.config.device_type)
          /\ Unwrap(call.file.config.device_type) \notin {"glow", "beam", "beam_lx"}
       THEN call.out.err = "InvalidDeviceType"
       ELSE call.out.err = "MultipleFiltersSpecified"
  /\ (Done("load_config_file") /\ ~LoadedSeveralFilters) =>
       call.out.err # "MultipleFiltersSpecified"

C12_Witness ==
  /\ Done("get_all_supported_devices")
  /\ call.conn = Devices /\ IsClean(call.env)
  /\ IsSome(call.cfg.device_path) /\ IsSome(call.cfg.device_type)
  /\ ~IsSome(call.cfg.serial_number)
  /\ call.out.res.err = "MultipleFiltersSpecified"
  /\ call.out.calls = <<>>

\* C13: with a device path given the predicate is path equality, whatever
\* the type filter; otherwise with a device type given it is equality of the
\* type name; otherwise every device matches.
C13_FilterOrder ==
  Done("check_device_filters") =>
    /\ IsSome(call.device_path) =>
         (call.out <=> DevicePathOf(call.device) = Unwrap(call.device_path))
    /\ (~IsSome(call.device_path) /\ IsSome(call.device_type)) =>
         (call.out <=> DeviceTypeStr(call.device) = Unwrap(call.device_type))
    /\ (~IsSome(call.device_path) /\ ~IsSome(call.device_type)) => call.out

C13_Witness ==
  /\ Done("check_device_filters")
  /\ call.device = 2
  /\ call.device_path = <<"/dev/hidraw1">> /\ call.device_type = <<"glow">>
  /\ call.out

StartupEnv == CHOOSE e \in envs : TRUE

\* the filter kinds given on the command line
StartupFilters ==
  {k \in {"serial_number", "device_path", "device_type"} : cfg[k] # None}

\* the connected devices that pass the filter, open, and, with a serial
\* filter, report that serial
StartupMatching ==
  {d \in connected :
     /\ cfg.device_path # None => DevicePathOf(d) = cfg.device_path[1]
     /\ cfg.device_type # None => DeviceTypeStr(d) = cfg.device_type[1]
     /\ StartupEnv.fault[d] # "open"
     /\ cfg.serial_number # None =>
          /\ StartupEnv.fault[d] \notin {"serial", "serial_set", "serial_back"}
          /\ DeviceSerialOf(d) = cfg.serial_number}

\* the "Found .." line of a matched device reads a serial that cannot be
\* read (the panic of C32)
StartupLogPanics ==
  /\ StartupEnv.log_level \in {"info", "debug", "trace"}
  /\ \E d \in StartupMatching :
       StartupEnv.fault[d] \in {"serial", "serial_set", "serial_back"}

\* the error the startup match returns with, "Ok" when it returns none
StartupError ==
  IF Cardinality(StartupFilters) > 1 THEN "MultipleFiltersSpecified"
  ELSE IF ~StartupEnv.refresh_ok THEN "DeviceError"
  ELSE IF StartupMatching = {} /\ cfg.require_device
  THEN (IF cfg.serial_number # None THEN "DeviceNotFound" ELSE "NoDevicesFound")
  ELSE "Ok"

CliErrors ==
  {"DeviceError", "IoError", "NoDevicesFound", "DeviceNotFound",
   "MultipleFiltersSpecified"}

\* C15: handle_autotoggle_command has either not returned, or has returned
\* an error, for which main gives the failure exit code; it never returns
\* success.
C15_NeverReturnsSuccess ==
  /\ mainpc = "returned" =>
       result \in CliErrors /\ main_exit_code(result) = "FAILURE"
  /\ mainpc \notin {"returned", "panicked"} => result = "running"

C15_Witness ==
  /\ mainpc = "returned" /\ result = "IoError"
  /\ Len(edges) = 2 /\ Len(applyLog) = 2

\* the first two edges carry the same value, the first was read and applied
\* by its action, and everything has ended
SameIntentTwiceSettled ==
  /\ Settled
  /\ Len(edges) = 2 /\ edges[1] = edges[2]
  /\ \E i \in 1..Len(applyLog) : applyLog[i].edge = 1

\* the step of task t in which it applies the value of the previous apply
AppliesSameAgain(t) ==
  /\ Applies(t)
  /\ applyLog # <<>>
  /\ applyLog[Len(applyLog)].on = Unwrap(tasks[t].state)

\* C16: when the same intent arrives twice and each edge settles, two
\* applies with that value are executed, none raises an error, and the
\* apply that repeats the value of the previous one leaves the power states
\* as they were.
C16_Idempotence ==
  [][/\ SameIntentTwiceSettled' =>
          /\ Len(applyLog') = 2
          /\ \A i \in 1..2 : applyLog'[i].on = edges'[1] /\ applyLog'[i].err = "Ok"
          /\ {applyLog'[i].edge : i \in 1..2} = {1, 2}
          /\ \A d \in connected : light'[d].on = PowerOf(edges'[1])
     /\ \A t \in TaskIds : AppliesSameAgain(t) =>
          /\ light' = light
          /\ applyLog'[Len(applyLog')].err = "Ok"]_vars

C16_Witness ==
  /\ SameIntentTwiceSettled
  /\ connected = Devices
  /\ Len(applyLog) = 2 /\ applyLog[1].on /\ applyLog[2].on
  /\ \A d \in Devices : light[d].on = "on"

\* the camera-in-use state for a value of the open-video-device counter
InUse(n) == n # 0

\* C17: a batch of events makes the ingest loop forward an edge exactly
\* when it changes the camera-in-use state, between no device open and at
\* least one open; otherwise the loop goes back to reading, without setting
\* CameraIntent and without touching the PendingAction.
C17_EdgeSuppression ==
  [][(mainpc = "read" /\ mainpc' # "returned") =>
       (mainpc' = "lock_intent" <=> InUse(num_devices_open') # InUse(num_devices_open))]_vars

\* the configuration the file of the call holds (nothing without a file)
FileConfig ==
  IF call.argv.config_file = <<>> THEN EmptyConfig ELSE call.argv.config_file[1].config

Merged == call.out.cli

\* the command line wins for the options that are strings
StringsPrecede ==
  \A k \in {"serial_number", "device_path", "device_type", "video_device"} :
    Merged[k] = (IF IsSome(call.argv[k]) THEN call.argv[k] ELSE FileConfig[k])

\* the command line wins for the flags: a flag that is given is set
FlagsPrecede ==
  \A k \in {"require_device", "verbose", "back", "check_updates"} :
    Merged[k] = (IF call.argv[k] THEN TRUE ELSE unwrap_or(FileConfig[k], FALSE))

\* the command line wins for the delay
DelayPrecedes ==
  Merged.delay =
    (IF call.argv.delay # <<>> THEN call.argv.delay[1]
     ELSE unwrap_or(FileConfig.delay, DefaultDelay))

\* C18: in the merged configuration every option given on the command line
\* has the value given there, and an option not given has the value of the
\* configuration file, or its default.
C18_CliPrecedence ==
  (Done("merge_config_with_cli") /\ call.out.err = "Ok")
    => StringsPrecede /\ FlagsPrecede /\ DelayPrecedes

ValidTypeNames == {"glow", "beam", "beam_lx"}

\* a device type is given and is not one of the three names
BadType(device_type) ==
  IsSome(device_type) /\ Unwrap(device_type) \notin ValidTypeNames

\* the file was read and parsed
Parsed(file) == file.readable /\ file.parses

\* the call failed with InvalidDeviceType carrying device_type
RejectsType(device_type) ==
  call.out.err = "InvalidDeviceType" /\ call.out.arg = device_type

\* the file of a merge call, if any, loads without error
FileLoads ==
  \/ call.argv.config_file = <<>>
  \/ /\ Parsed(call.argv.config_file[1])
     /\ ~BadType(FileConfig.device_type)
     /\ FilterCount(FileConfig) <= 1

\* the device type after the merge
MergedType ==
  IF IsSome(call.argv.device_type) THEN call.argv.device_type
  ELSE FileConfig.device_type

\* C19: validate_device_type succeeds exactly for glow, beam and beam_lx and
\* fails with InvalidDeviceType carrying its argument otherwise;
\* load_config_file and merge_config_with_cli reject a parsed configuration
\* file whose device_type is not one of the three with that error, and
\* merge_config_with_cli rejects such a device type after the merge.
C19_DeviceTypeValidation ==
  /\ Done("validate_device_type") =>
       IF call.device_type \in ValidTypeNames
       THEN call.out.err = "Ok"
       ELSE RejectsType(<<call.device_type>>)
  /\ (Done("load_config_file") /\ Parsed(call.file)) =>
       IF BadType(call.file.config.device_type)
       THEN RejectsType(call.file.config.device_type)
       ELSE call.out.err # "InvalidDeviceType"
  /\ (/\ Done("merge_config_with_cli")
      /\ call.argv.config_file # <<>>
      /\ Parsed(call.argv.config_file[1])
      /\ BadType(FileConfig.device_type)) => RejectsType(FileConfig.device_type)
  /\ (Done("merge_config_with_cli") /\ FileLoads) =>
       IF BadType(MergedType)
       THEN RejectsType(MergedType)
       ELSE call.out.err = "Ok"

C19_Witness ==
  /\ Done("merge_config_with_cli")
  /\ call.argv.device_type = <<"glow">>
  /\ call.argv.config_file # <<>>
  /\ Parsed(call.argv.config_file[1])
  /\ FileConfig.device_type = <<"Glow">>
  /\ RejectsType(<<"Glow">>)

\* v.trim_start_matches('v').split('.'): the pieces of a version string
Pieces(v) == split_dot(trim_start_matches_v(v), <<>>)

\* a dotted numeric version: every piece is one or more digits
IsDottedNumeric(v) ==
  \A i \in 1..Len(Pieces(v)) :
    /\ Pieces(v)[i] # <<>>
    /\ \A j \in 1..Len(Pieces(v)[i]) : IsDigit(Pieces(v)[i][j])

\* the components the claim speaks of: every piece of a dotted numeric
\* version read as a number of any size (the parts the code compares are
\* parse_version(v))
NumericComponents(v) == [i \in 1..Len(Pieces(v)) |-> StripZeros(Pieces(v)[i])]

\* the positions of the common-length prefix where the components differ
Differing(cs, rs) ==
  {i \in 1..(IF Len(cs) < Len(rs) THEN Len(cs) ELSE Len(rs)) : cs[i] # rs[i]}

\* remote is the greater at the first differing position, if there is one
NewerAtFirstDifference(cs, rs) ==
  /\ Differing(cs, rs) # {}
  /\ LET i == CHOOSE k \in Differing(cs, rs) : \A m \in Differing(cs, rs) : k <= m
     IN NumLess(cs[i], rs[i])

\* C20: over dotted numeric versions, is_newer_version(current, remote) is
\* true exactly when remote has the greater component at the first position
\* of the common-length prefix where the components differ, and it is never
\* true in both directions.
C20_IsNewerVersion ==
  (/\ Done("is_newer_version")
   /\ IsDottedNumeric(call.current) /\ IsDottedNumeric(call.remote)) =>
    /\ call.out <=>
         NewerAtFirstDifference(NumericComponents(call.current),
                                NumericComponents(call.remote))
    /\ ~(call.out /\ is_newer_version(call.remote, call.current))

\* the scheduled units that are alive: sleeping, reading the intent, waiting
\* for a lock or applying
AliveUnits == {t \in TaskIds : Alive(tasks[t].pc)}

\* C21: at most one scheduled unit is alive at a time, and the applies are
\* executed in the order of the edges whose value they carry: no apply of an
\* earlier edge is executed after an apply of a later edge.
C21_OneAliveOrderedApplies ==
  /\ Cardinality(AliveUnits) <= 1
  /\ \A i, j \in 1..Len(applyLog) :
       i < j => applyLog[i].edge <= applyLog[j].edge

\* the ingest path takes the step that leaves position pc
MainLeaves(pc) == mainpc = pc /\ mainpc' # pc

\* step 1: the intent lock is acquired when it is free, the value of the
\* edge is written under it, and it is released
WritesUnderLock ==
  /\ MainLeaves("lock_intent") =>
       /\ intent_lock = Free /\ intent_lock' = Main
       /\ mainpc' = "write"
       /\ UNCHANGED <<desired_state, pending_action, tasks, edges>>
  /\ MainLeaves("write") =>
       /\ intent_lock = Main /\ intent_lock' = Free
       /\ desired_state' = Some(InUse(num_devices_open))
       /\ edges' = Append(edges, InUse(num_devices_open))
       /\ mainpc' = "cancel"
       /\ UNCHANGED <<pending_action, tasks>>

\* step 2: the stored action, if there is one, has its abort called and the
\* slot is emptied
CancelsStored ==
  MainLeaves("cancel") =>
    /\ intent_lock # Main
    /\ pending_action # 0 =>
         /\ tasks'[pending_action].aborted
         /\ ~Alive(tasks'[pending_action].pc) \/ ~Idle(tasks[pending_action].pc)
    /\ \A t \in TaskIds : t # pending_action => tasks'[t] = tasks[t]
    /\ pending_action' = 0
    /\ mainpc' = "spawn"
    /\ UNCHANGED <<desired_state, intent_lock, edges>>

\* the actions created by a step
Born == {t \in TaskIds : tasks[t].pc = "unborn" /\ tasks'[t].pc # "unborn"}

\* step 3: exactly one action is created, asleep for the configured settle
\* delay, and is stored in the slot
SchedulesOne ==
  /\ MainLeaves("spawn") =>
       /\ intent_lock # Main
       /\ Cardinality(Born) = 1
       /\ \A t \in Born :
            /\ tasks'[t].pc = "sleeping" /\ tasks'[t].delay = cfg.delay
            /\ pending_action' = t
       /\ \A t \in TaskIds \ Born : tasks'[t] = tasks[t]
       /\ mainpc' = "read"
       /\ UNCHANGED <<desired_state, intent_lock, edges>>
  /\ ~MainLeaves("spawn") => Born = {}

\* C22: for every forwarded edge the ingest path, in this order, writes the
\* value of the edge into CameraIntent under the intent lock and releases
\* the lock, cancels the stored PendingAction if there is one, and schedules
\* exactly one new action with the configured settle delay, stored as the
\* PendingAction; the intent lock is not held during the last two steps.
C22_TransitionProtocol ==
  [][WritesUnderLock /\ CancelsStored /\ SchedulesOne]_vars

C22_Witness ==
  /\ mainpc = "read"
  /\ cfg.delay = 0
  /\ Len(edges) = 2
  /\ tasks[1].pc = "cancelled" /\ tasks[1].aborted
  /\ tasks[2].pc = "sleeping" /\ tasks[2].delay = 0
  /\ pending_action = 2
  /\ desired_state = Some(edges[2])

\* the step in which task t leaves its critical section on the intent (the
\* step of the task, not the shutdown of the runtime that drops it)
LeavesIntentSection(t) ==
  tasks[t].pc = "intent_cs" /\ tasks'[t].pc \notin {"intent_cs", "dropped"}

\* the read and the reset are one critical section under the intent lock,
\* and an action that read unknown ends there: no context lock, no command
ReadAndResetAtomically ==
  \A t \in TaskIds : LeavesIntentSection(t) =>
    /\ intent_lock = t /\ intent_lock' = Free
    /\ desired_state' = NoIntent /\ intent_edge' = 0
    /\ IF desired_state = NoIntent
       THEN /\ tasks'[t].pc = "done"
            /\ UNCHANGED <<context_lock, applyLog, light>>
       ELSE /\ tasks'[t].pc = "has_state"
            /\ tasks'[t].state = desired_state
            /\ tasks'[t].edge = intent_edge

\* the places where the intent written by edge e is: the cell, the actions
\* that hold it, the applies executed with it
HoldersOf(e) == {t \in TaskIds : tasks[t].edge = e}
AppliesOf(e) == {i \in 1..Len(applyLog) : applyLog[i].edge = e}

ConsumedAtMostOnce ==
  /\ \A t \in TaskIds :
       tasks[t].pc \in {"has_state", "wait_ctx", "applying"} =>
         tasks[t].state # NoIntent /\ tasks[t].edge # 0
  /\ \A e \in 1..Len(edges) :
       Cardinality(HoldersOf(e)) + Cardinality(AppliesOf(e))
         + (IF intent_edge = e THEN 1 ELSE 0) <= 1

\* C23: an action reads CameraIntent and resets it to unknown in one
\* critical section under the intent lock; if it read unknown it takes no
\* context lock and sends no command; so the intent written by an edge is
\* consumed by at most one action and leads to at most one apply.
C23_ReadAndClear ==
  []ConsumedAtMostOnce /\ [][ReadAndResetAtomically]_vars

C23_Witness ==
  /\ Len(edges) = 2
  /\ tasks[2].pc = "done" /\ tasks[1].pc = "done"
  /\ Len(applyLog) = 1
  /\ applyLog[1].task = 1 /\ applyLog[1].edge = 2
  /\ desired_state = NoIntent

\* the locks a scheduled action holds
LocksHeldBy(t) ==
  (IF intent_lock = t THEN {"intent"} ELSE {})
    \cup (IF context_lock = t THEN {"context"} ELSE {})

\* C24: a scheduled action that waits out the settle delay holds no lock,
\* and an action holds the intent lock only in its read-and-clear section
\* and the context lock only in its enumerate-and-apply section.
C24_NoLockAcrossDelay ==
  \A t \in TaskIds :
    /\ tasks[t].pc = "sleeping" => LocksHeldBy(t) = {}
    /\ intent_lock = t <=> tasks[t].pc = "intent_cs"
    /\ context_lock = t <=> tasks[t].pc = "applying"

C24_Witness ==
  /\ tasks[3].pc = "sleeping" /\ LocksHeldBy(3) = {}
  /\ tasks[1].pc = "applying" /\ LocksHeldBy(1) = {"context"}
  /\ tasks[2].pc = "intent_cs" /\ LocksHeldBy(2) = {"intent"}

\* the ingest path is between two transitions, after at least one
BetweenTransitions == mainpc = "read" /\ edges # <<>>

\* the action of the last edge has expired and finished, and no further
\* edge has arrived
LastActionFinished == BetweenTransitions /\ tasks[Len(edges)].pc = "done"

\* every transition creates an action and stores it; a cancelled action was
\* cancelled by a later transition, which took it out of the slot
CreatedAndCancelled ==
  /\ BetweenTransitions =>
       tasks[Len(edges)].pc # "unborn" /\ pending_action = Len(edges)
  /\ mainpc = "spawn" => pending_action = 0
  /\ \A t \in TaskIds : (~Exited /\ tasks[t].pc = "cancelled") =>
       tasks[t].aborted /\ t < Len(edges) /\ pending_action # t

\* C25 as claimed: a PendingAction is created on every transition and is
\* consumed and cleared by its expiry-and-apply or by the cancellation of a
\* later transition; once the action has expired and finished with no
\* further edge, no PendingAction is stored and CameraIntent is unknown.
C25_Lifecycle ==
  /\ CreatedAndCancelled
  /\ LastActionFinished => pending_action = 0 /\ desired_state = NoIntent

\* C25, amended: the slot is emptied only by the next transition; once the
\* action has expired and finished with no further edge, the slot still
\* holds the handle of that finished action and CameraIntent is unknown.
C25_LifecycleSlotKept ==
  /\ CreatedAndCancelled
  /\ LastActionFinished =>
       pending_action = Len(edges) /\ desired_state = NoIntent

C25_Witness ==
  /\ LastActionFinished
  /\ Len(edges) = 2
  /\ tasks[1].pc = "cancelled"
  /\ Len(applyLog) = 1 /\ applyLog[1].task = 2
  /\ pending_action = 2 /\ desired_state = NoIntent

\* a call of the matcher with at most one filter kind whose refresh succeeds
MatchedWithOneFilter ==
  /\ Done("get_all_supported_devices")
  /\ FilterCount(call.cfg) <= 1
  /\ call.env.refresh_ok

\* device d passes the filters given in c
PassesFilters(d, c) ==
  /\ IsSome(c.device_path) => DevicePathOf(d) = Unwrap(c.device_path)
  /\ IsSome(c.device_type) => DeviceTypeStr(d) = Unwrap(c.device_type)

\* device d opens, and with a serial filter its serial reads as that serial
OpensAndHasSerial(d, c, env) ==
  /\ env.fault[d] # "open"
  /\ IsSome(c.serial_number) =>
       env.fault[d] # "serial" /\ DeviceSerialOf(d) = c.serial_number

\* the connected devices of the call that match and open
OpenedMatching ==
  {d \in call.conn : /\ PassesFilters(d, call.cfg)
                     /\ OpensAndHasSerial(d, call.cfg, call.env)}

\* C26: get_all_supported_devices returns an error exactly when no matching
\* device opened and require_device is set: DeviceNotFound with the serial
\* number when a serial filter was given, NoDevicesFound otherwise; in every
\* other case it returns the handles, which may be none.
C26_ResultSelection ==
  MatchedWithOneFilter =>
    IF OpenedMatching = {} /\ call.cfg.require_device
    THEN /\ call.out.res.handles = <<>>
         /\ IF IsSome(call.cfg.serial_number)
            THEN /\ call.out.res.err = "DeviceNotFound"
                 /\ call.out.res.arg = call.cfg.serial_number
            ELSE call.out.res.err = "NoDevicesFound"
    ELSE /\ call.out.res.err = "Ok"
         /\ Range(call.out.res.handles) = OpenedMatching

C26_Witness ==
  /\ MatchedWithOneFilter
  /\ call.conn = {2, 3}
  /\ call.cfg.serial_number = <<"S1">> /\ call.cfg.require_device
  /\ call.out.res.err = "DeviceNotFound" /\ call.out.res.arg = <<"S1">>

\* a failing refresh ends the matcher with the device error after the
\* refresh, its only call on the device subsystem, and ends an apply before
\* any command
RefreshFailureAborts ==
  /\ (Done("get_all_supported_devices") /\ FilterCount(call.cfg) <= 1
        /\ ~call.env.refresh_ok) =>
       /\ call.out.res.err = "DeviceError" /\ call.out.res.handles = <<>>
       /\ call.out.calls = <<<<"refresh", 0>>>>
  /\ (Done("apply") /\ FilterCount(call.cfg) <= 1 /\ ~call.env.refresh_ok) =>
       /\ call.out.err = "DeviceError"
       /\ call.out.set_calls = <<>> /\ call.out.attempts = {}
       /\ call.out.light = light

\* the matching devices of the call that fail to open
FailedToOpen ==
  {d \in call.conn : PassesFilters(d, call.cfg) /\ call.env.fault[d] = "open"}

\* the result of the same call with the devices that fail to open not
\* connected
ResultWithout(ds) ==
  get_all_supported_devices(call.context, call.conn \ ds, call.cfg, call.env)

\* a device that fails to open is only removed from the result
OpenFailureRemoves ==
  (MatchedWithOneFilter /\ FailedToOpen # {}) =>
    /\ Range(call.out.res.handles) \cap FailedToOpen = {}
    /\ call.out.res.err = ResultWithout(FailedToOpen).err
    /\ call.out.res.arg = ResultWithout(FailedToOpen).arg
    /\ call.out.res.handles = ResultWithout(FailedToOpen).handles
    /\ call.out.res.err # "DeviceError"

\* C27 as claimed: a failing refresh aborts the call with the device error
\* before any device is enumerated, opened or commanded; a device that fails
\* to open is only removed from the result and the call does not fail.
C27_RefreshFatalOpenSwallowed ==
  /\ RefreshFailureAborts
  /\ OpenFailureRemoves
  /\ (MatchedWithOneFilter /\ FailedToOpen # {}) => call.out.res.err = "Ok"

\* C27, amended: a device that fails to open is only removed from the
\* result, and its error is never returned; the call then fails only as it
\* does for any result without handles: with NoDevicesFound or
\* DeviceNotFound when no handle is left and require_device is set.
C27_RefreshFatalOpenRemoved ==
  /\ RefreshFailureAborts
  /\ OpenFailureRemoves
  /\ (MatchedWithOneFilter /\ FailedToOpen # {}) =>
       IF call.out.res.handles = <<>> /\ call.cfg.require_device
       THEN call.out.res.err \in {"NoDevicesFound", "DeviceNotFound"}
       ELSE call.out.res.err = "Ok"

C27_Witness ==
  /\ MatchedWithOneFilter
  /\ call.conn = Devices /\ FailedToOpen = {1}
  /\ call.cfg.require_device /\ FilterCount(call.cfg) = 0
  /\ call.out.res.err = "Ok" /\ call.out.res.handles = <<2, 3>>
  /\ call.out.calls =
       <<<<"refresh", 0>>, <<"get_connected_devices", 0>>,
         <<"open", 1>>, <<"open", 2>>, <<"open", 3>>>>

\* a scheduled apply has met a failure of the refresh of the device context
ContextFailureInApply ==
  \E i \in 1..Len(applyLog) : applyLog[i].err = "DeviceError"

\* handle_autotoggle_command has returned err and main ends with a failure
RunEndedWith(err) ==
  mainpc = "returned" /\ result = err /\ main_exit_code(result) = "FAILURE"

\* an apply in which devices failed, and which absorbed the failures
AbsorbsDeviceFailure(t) ==
  /\ Applies(t)
  /\ ~applyLog'[Len(applyLog')].clean
  /\ applyLog'[Len(applyLog')].err = "Ok"

\* C28: a failure of the refresh in a match ends the run: once a scheduled
\* apply has met one and nothing is in flight any more,
\* handle_autotoggle_command has returned the device error and the process
\* ends with a failure, as it does when the startup match meets one; an
\* apply that absorbs the failures of its devices leaves the run going.
C28_ContextFailuresEscape ==
  /\ []((ContextFailureInApply /\ \A t \in TaskIds : ~Alive(tasks[t].pc))
          => RunEndedWith("DeviceError"))
  /\ [](result = "DeviceError" => RunEndedWith("DeviceError"))
  /\ [][\A t \in TaskIds : AbsorbsDeviceFailure(t) =>
          mainpc' = mainpc /\ result' = "running"]_vars

\* the devices among conn that match the filter of the session (every
\* device opens and reports its serial in these calls)
MatchingIn(conn) ==
  {d \in conn : /\ PassesFilters(d, call.cfg)
                /\ IsSome(call.cfg.serial_number) =>
                     DeviceSerialOf(d) = call.cfg.serial_number}

\* apply a commands exactly the devices ds, once each, with value on
CommandsExactly(a, ds, on) ==
  /\ a.err = "Ok"
  /\ Range(a.handles) = ds /\ a.attempts = ds
  /\ Len(a.set_calls) = Cardinality(ds)
  /\ \A d \in ds : \E i \in 1..Len(a.set_calls) : a.set_calls[i] = <<d, on>>

\* C29: every match refreshes the device context before it enumerates, and
\* no handle is kept from one apply to the next: each apply commands exactly
\* the matching devices connected at its time, so a device plugged in after
\* startup is commanded by the next apply and a device unplugged since the
\* previous apply is not (its light stays as that apply left it).
C29_HotPlug ==
  Done("hotplug") =>
    /\ Range(call.out.startup.handles) = MatchingIn(call.at_startup)
    /\ CommandsExactly(call.out.first, MatchingIn(call.at_first), call.on)
    /\ CommandsExactly(call.out.second, MatchingIn(call.at_second), ~call.on)
    /\ call.out.second_calls[1] = <<"refresh", 0>>
    /\ call.out.second_calls[2] = <<"get_connected_devices", 0>>
    /\ \A d \in call.at_first \ call.at_second :
         /\ d \notin call.out.second.attempts
         /\ call.out.second.light[d] = call.out.first.light[d]
    /\ \A d \in MatchingIn(call.at_second) :
         call.out.second.light[d].on = PowerOf(~call.on)

C29_Witness ==
  /\ Done("hotplug")
  /\ FilterCount(call.cfg) = 0
  /\ call.at_startup = {1} /\ call.at_first = {1, 2} /\ call.at_second = {2}
  /\ call.out.first.attempts = {1, 2}
  /\ call.out.second.attempts = {2}
  /\ call.out.second.light[1].on = PowerOf(call.on)
  /\ call.out.second.light[2].on = PowerOf(~call.on)

\* a call of the matcher with a serial filter only, whose refresh succeeds
MatchedBySerial ==
  /\ MatchedWithOneFilter
  /\ IsSome(call.cfg.serial_number)

\* the connected devices that open and whose serial reads as the filter
ReadsAsSerial ==
  {d \in call.conn : /\ call.env.fault[d] \notin {"open", "serial"}
                     /\ DeviceSerialOf(d) = call.cfg.serial_number}

\* the connected devices that fail to open, whose serial cannot be read, or
\* that report no serial
Unidentified ==
  {d \in call.conn : \/ call.env.fault[d] \in {"open", "serial"}
                     \/ DeviceSerialOf(d) = None}

\* the handles returned are those of the devices that read as the serial,
\* and the serial of every device that opened was read
SerialSecondPass ==
  MatchedBySerial =>
    /\ call.out.res.handles = InOrder(ReadsAsSerial)
    /\ Range(call.out.res.handles) \cap Unidentified = {}
    /\ \A d \in call.conn :
         (\E i \in 1..Len(call.out.calls) : call.out.calls[i] = <<"serial_number", d>>)
           <=> call.env.fault[d] # "open"

\* C30: with a serial filter the matcher returns exactly the handles of the
\* connected devices that open and whose serial reads as the filter; a
\* device that fails to open, whose serial cannot be read or that reports no
\* serial is excluded without raising an error: the result is the one of the
\* call without that device, and the only error is DeviceNotFound with the
\* serial, for no handle with require_device.
C30_SerialFilter ==
  /\ SerialSecondPass
  /\ MatchedBySerial =>
       /\ call.out.res.err = ResultWithout(Unidentified).err
       /\ call.out.res.handles = ResultWithout(Unidentified).handles
       /\ IF ReadsAsSerial = {} /\ call.cfg.require_device
          THEN /\ call.out.res.err = "DeviceNotFound"
               /\ call.out.res.arg = call.cfg.serial_number
          ELSE call.out.res.err = "Ok"

C30_Witness ==
  /\ MatchedBySerial
  /\ call.conn = Devices
  /\ call.cfg.serial_number = <<"S3">> /\ call.env.fault[3] = "serial"
  /\ Unidentified = {2, 3}
  /\ call.out.res.err = "Ok" /\ call.out.res.handles = <<>>

\* the number of set_back_on commands sent to device d with value on
BackCalls(d, on) ==
  Cardinality({i \in 1..Len(call.out.back_calls) : call.out.back_calls[i] = <<d, on>>})

\* the matched handles whose back light the apply is to command
BackLit ==
  {d \in Range(CallHandles.handles) :
     call.cfg.back /\ DeviceTypeStr(d) = "beam_lx"}

\* C31: an apply sends the back light command to exactly the matched
\* handles that are Litra Beam LX when the back option is set, once each
\* and with the value of the power command of that apply, whether or not
\* the power command of the device succeeded; a failing back light command
\* leaves the apply successful and every matched handle commanded.
C31_BackLight ==
  (call.op = "apply" /\ call.done /\ CallHandles.err = "Ok" /\ SerialsReadable)
    => /\ call.out.err = "Ok"
       /\ \A d \in Devices :
            /\ BackCalls(d, call.on) = (IF d \in BackLit THEN 1 ELSE 0)
            /\ BackCalls(d, ~call.on) = 0
       /\ \A d \in Range(CallHandles.handles) : SetCalls(d, call.on) = 1
       /\ \A d \in BackLit :
            call.out.light[d].back =
              (IF call.env.fault[d] \in {"back", "set_back"}
               THEN "unknown" ELSE PowerOf(call.on))

C31_Witness ==
  /\ call.op = "apply" /\ call.done
  /\ call.cfg.back /\ call.conn = Devices
  /\ CallHandles.handles = <<1, 2, 3>>
  /\ call.env.fault[2] = "set_back" /\ call.env.fault[3] = "ok"
  /\ BackCalls(2, call.on) = 1 /\ Len(call.out.back_calls) = 1
  /\ call.out.light[2].on = "unknown" /\ call.out.light[2].back = "unknown"
  /\ call.out.light[3].on = PowerOf(call.on)
  /\ call.out.err = "Ok"

\* the matched handles whose serial number cannot be read
Unreadable ==
  {d \in Range(CallHandles.handles) : ~serial_number_read(d, call.env).ok}

\* C32: an apply to matched handles of which one has a serial number that
\* cannot be read does not panic, sends every matched handle, that one
\* included, its power command, and returns success.
C32_UnreadableSerialHandled ==
  (call.op = "apply" /\ call.done /\ CallHandles.err = "Ok" /\ Unreadable # {})
    => /\ ~call.out.panicked
       /\ call.out.err = "Ok"
       /\ \A d \in Range(CallHandles.handles) : SetCalls(d, call.on) = 1

\* Windows: the step of the loop that polls the registry
Polls == mainpc = "read" /\ mainpc' \in {"lock_intent", "poll_sleep"}

\* Windows: a poll forwards an edge exactly when the polled value differs
\* from the previously polled one, which it then replaces
ForwardsOnChange ==
  Polls =>
    /\ mainpc' = "lock_intent" <=> camera_in_use' # previous_camera_in_use
    /\ previous_camera_in_use' = camera_in_use'

\* Windows: a poll that shows no change leaves CameraIntent, the
\* PendingAction and the actions as they are, and the loop only sleeps
UnchangedPollIsIdle ==
  /\ (Polls /\ mainpc' = "poll_sleep") =>
       UNCHANGED <<desired_state, intent_edge, pending_action, tasks, edges, locks>>
  /\ mainpc = "poll_sleep" => mainpc' \in {"poll_sleep", "read"}

\* Windows: the value written into CameraIntent is the polled one
WritesPolled ==
  (mainpc = "write" /\ mainpc' = "cancel") =>
    /\ desired_state' = Some(previous_camera_in_use)
    /\ edges' = Append(edges, previous_camera_in_use)

\* the values of consecutive forwarded edges differ, the first one is active
EdgesAlternate ==
  /\ \A i \in 1..(Len(edges) - 1) : edges[i] # edges[i + 1]
  /\ edges # <<>> => edges[1]

\* C33: on Windows a poll forwards an intent change exactly when the polled
\* value differs from the previously polled one (initially not in use), with
\* the polled value; consecutive forwarded edges alternate and the first
\* one is active; a poll that shows no change neither writes CameraIntent
\* nor cancels or schedules an action.
C33_WindowsEdges ==
  /\ []EdgesAlternate
  /\ [][ForwardsOnChange /\ UnchangedPollIsIdle /\ WritesPolled]_vars

C33_Witness ==
  /\ mainpc = "poll_sleep"
  /\ edges = <<TRUE, FALSE, TRUE>>
  /\ camera_in_use /\ previous_camera_in_use
  /\ pending_action = 3 /\ tasks[3].pc = "done"
  /\ Len(applyLog) >= 1 /\ applyLog[Len(applyLog)].on

\* macOS: the line being handled has neither marker
MarkerLess(line) == line.read /\ ~line.start /\ ~line.stop

\* macOS: a step of the ingest loop
MainSteps == mainpc' # mainpc

\* macOS: every line other than the header is taken through the cancel of
\* the stored action and the spawn of a new one, which is stored
CancelsAndSchedules ==
  /\ (mainpc = "read" /\ log_line'.read) => mainpc' \in {"lock_intent", "cancel"}
  /\ (mainpc = "cancel" /\ MainSteps) =>
       /\ mainpc' = "spawn" /\ pending_action' = 0
       /\ tasks' = IF pending_action # 0 THEN abort(tasks, pending_action) ELSE tasks
  /\ (mainpc = "spawn" /\ MainSteps) =>
       /\ mainpc' = "read"
       /\ pending_action' = NextTask
       /\ tasks[NextTask].pc = "unborn" /\ tasks'[NextTask].pc = "sleeping"

\* macOS: the ingest loop writes CameraIntent only for a line with a
\* marker, with the value of the marker; while it handles a line without a
\* marker it leaves CameraIntent as it is
OnlyMarkersWrite ==
  /\ (desired_state' # desired_state /\ desired_state' # NoIntent) =>
       /\ mainpc = "write" /\ (log_line.start \/ log_line.stop)
       /\ desired_state' = Some(log_line.start)
  /\ (MainSteps /\ (MarkerLess(log_line) \/ MarkerLess(log_line'))) =>
       UNCHANGED <<desired_state, intent_edge, edges, intent_lock>>

\* an action that finds CameraIntent unknown ends without a device command
UnknownIntentIsNoCommand ==
  \A t \in TaskIds :
    (tasks[t].pc = "intent_cs" /\ tasks'[t].pc # "intent_cs"
       /\ desired_state = NoIntent /\ ~Exited')
      => /\ tasks'[t].pc = "done"
         /\ UNCHANGED <<applyLog, light, context_lock>>

\* the line is in hand exactly from its read to the spawn
LineInHand ==
  ~Exited => (log_line.read <=> mainpc \in {"lock_intent", "write", "cancel", "spawn"})

\* every apply has the value of the edge that wrote the intent it read, and
\* a written intent is in CameraIntent, held by one action or applied, at
\* most once
AppliesWrittenValues ==
  /\ \A i \in 1..Len(applyLog) :
       /\ applyLog[i].edge \in 1..Len(edges)
       /\ applyLog[i].on = edges[applyLog[i].edge]
  /\ Len(applyLog)
       + Cardinality({t \in TaskIds : tasks[t].state # NoIntent})
       + (IF desired_state # NoIntent THEN 1 ELSE 0) <= Len(edges)

\* C34: on macOS every log line other than the header cancels the
\* PendingAction and schedules a new one, and only a line with the
\* startRunning or stopRunning marker writes CameraIntent; a line with
\* neither marker leaves CameraIntent unchanged, so the action it schedules
\* applies the value that was pending, and no device command when
\* CameraIntent is unknown.
C34_MacosLines ==
  /\ [](LineInHand /\ AppliesWrittenValues)
  /\ [][CancelsAndSchedules /\ OnlyMarkersWrite /\ UnknownIntentIsNoCommand]_vars

\* a start line, then a line without marker that cancels the sleeping
\* action: the action it schedules applies the value of the start line
C34_Witness ==
  /\ edges = <<TRUE>>
  /\ tasks[1].pc = "cancelled" /\ tasks[2].pc = "done"
  /\ Len(applyLog) = 1
  /\ applyLog[1].task = 2 /\ applyLog[1].on /\ applyLog[1].edge = 1
  /\ desired_state = NoIntent
  /\ mainpc = "read"

\* the number of events of one kind in a batch
CountOf(kind, batch) == Cardinality({k \in 1..Len(batch) : batch[k] = kind})

\* the counter before event k of the batch of the call
CountBefore(k) == CountAfter(call.num_devices_open, SubSeq(call.batch, 1, k - 1))

\* the close events of the batch that find the counter at zero
ClosesAtZero ==
  {k \in 1..Len(call.batch) : call.batch[k] = "close" /\ CountBefore(k) = 0}

\* the counter stays at zero or above through the batch, a close at zero
\* leaves it at zero, and the value written with a forwarded edge is
\* inactive exactly for zero
CounterAndIntent ==
  /\ \A k \in 1..(Len(call.batch) + 1) : CountBefore(k) >= 0
  /\ \A k \in ClosesAtZero : CountBefore(k + 1) = 0
  /\ call.out.num_devices_open = CountBefore(Len(call.batch) + 1)
  /\ call.out.num_devices_open =
       call.num_devices_open + CountOf("open", call.batch)
         - (CountOf("close", call.batch) - Cardinality(ClosesAtZero))
  /\ (call.num_devices_open = 0 /\ Range(call.batch) = {"close"})
       => ~call.out.forwards
  /\ call.out.forwards <=> call.out.num_devices_open # call.num_devices_open
  /\ IF call.out.forwards
     THEN /\ call.out.state # NoIntent
          /\ Unwrap(call.out.state) <=> call.out.num_devices_open > 0
          /\ ~Unwrap(call.out.state) <=> call.out.num_devices_open = 0
     ELSE call.out.state = NoIntent

\* the batch of the call has as many opens as closes
OpensAndClosesCancel ==
  CountOf("open", call.batch) = CountOf("close", call.batch)

\* C35 as claimed: the counter never goes below zero, the value written
\* agrees with the counter after the batch, and a batch whose opens and
\* closes cancel out forwards nothing.
C35_CounterCancelOut ==
  Done("read_batch") =>
    /\ CounterAndIntent
    /\ OpensAndClosesCancel => ~call.out.forwards

\* C35, amended: the counter never goes below zero, the value written
\* agrees with the counter after the batch, and a batch whose opens and
\* closes cancel out forwards nothing unless one of its closes finds the
\* counter at zero; that close is absorbed, and the batch then forwards
\* active.
C35_CounterCancelOutAboveZero ==
  Done("read_batch") =>
    /\ CounterAndIntent
    /\ OpensAndClosesCancel =>
         IF ClosesAtZero = {}
         THEN ~call.out.forwards
         ELSE call.out.forwards /\ call.out.state = Some(TRUE)

C35_Witness ==
  /\ Done("read_batch")
  /\ call.num_devices_open = 1
  /\ call.batch = <<"close", "open">>
  /\ call.out.num_devices_open = 1 /\ ~call.out.forwards

\* the position of an action from its read of CameraIntent to its apply
PastIntentSection(t) == tasks[t].pc \in {"has_state", "wait_ctx", "applying"}

\* no action holds the intent lock while it waits for or holds the context
\* lock, and the ingest path holds the context lock only in the startup match
LockOrder ==
  /\ \A t \in TaskIds :
       /\ intent_lock = t => ~PastIntentSection(t) /\ context_lock # t
       /\ (PastIntentSection(t) \/ context_lock = t) => intent_lock # t
  /\ context_lock = Main <=> mainpc = "startup_match"
  /\ intent_lock = Main <=> mainpc = "write"

\* the ingest path requests the context lock only at startup
ContextRequestedAtStartupOnly ==
  context_lock' = Main => (context_lock = Main \/ mainpc = "startup")

\* the ingest path waiting to write CameraIntent is kept waiting only by an
\* action inside its read-and-clear section, never by one that applies
WriteNotBlockedByApply ==
  (mainpc = "lock_intent" /\ intent_lock # Free) =>
    /\ intent_lock \in TaskIds
    /\ tasks[intent_lock].pc = "intent_cs"
    /\ context_lock # intent_lock
    /\ ENABLED TakeIntent(intent_lock)

\* the enabling condition of Apply(t): the apply is a synchronous call made
\* with the value the action read, it waits for nothing
ApplyCanRun(t) ==
  tasks[t].pc = "applying" /\ tasks[t].state # NoIntent /\ envs # {}

\* whoever holds a lock can take the step that releases it, and whoever
\* waits for a lock that is free can take it
NoLockDeadlock ==
  /\ intent_lock = Main => ENABLED WriteIntent
  /\ context_lock = Main => ENABLED StartupMatch
  /\ \A t \in TaskIds :
       /\ intent_lock = t => ENABLED TakeIntent(t)
       /\ context_lock = t => ApplyCanRun(t)
       /\ (tasks[t].pc = "wait_intent" /\ intent_lock = Free)
            => ENABLED TaskLockIntent(t)
       /\ (tasks[t].pc = "wait_ctx" /\ context_lock = Free)
            => ENABLED TaskLockContext(t)
  /\ (mainpc = "lock_intent" /\ intent_lock = Free) => ENABLED MainLockIntent

\* C36: no action holds the intent lock while it waits for or holds the
\* context lock, the ingest path takes the context lock only at startup, its
\* write of CameraIntent is never kept waiting by an apply in progress, and
\* no reachable state is a deadlock on the two locks.
C36_LockDiscipline ==
  /\ [](LockOrder /\ WriteNotBlockedByApply /\ NoLockDeadlock)
  /\ [][ContextRequestedAtStartupOnly]_vars

\* the ingest path writes CameraIntent while one action applies under the
\* context lock and another waits for that lock
C36_Witness ==
  /\ mainpc = "write" /\ intent_lock = Main
  /\ tasks[1].pc = "applying" /\ context_lock = 1
  /\ tasks[2].pc = "wait_ctx"
  /\ Len(edges) = 2

=============================================================================
